---- MODULE Spec2Model ----
(***************************************************************************)
(* Timetable conflict detection and substitute ranking (smarty).           *)
(*                                                                         *)
(* The database tables (teachers, time_slots, teacher_workload,            *)
(* teacher_availability, substitution_requests, conflicts) are the state;  *)
(* the SQL functions and triggers of the migrations and the edge-function  *)
(* handlers are the actions.  Pure helpers of the TypeScript libraries are *)
(* operators, applied by the actions that call them.                       *)
(*                                                                         *)
(* Representation:                                                         *)
(*   - a time of day "HH:MM" is the pair <<HH, MM>>; SQL NULL time is <<>>;*)
(*   - uuids and text keys are strings; SQL NULL of such a column is the   *)
(*     string "NULL";                                                      *)
(*   - an employee code is the sequence of its characters' collation ranks *)
(*     (so that string comparison is something the model computes);        *)
(*   - a match score is kept in tenths (0.5 is 5), minutes are minutes.    *)
(***************************************************************************)
EXTENDS Integers, Sequences, FiniteSets, TLC

----------------------------------------------------------------------------
(* Bounds of the model                                                      *)

\* longest candidate array handed to deterministicTieBreaker
MaxCandidates == 3

\* most time slots of the timetable a detection run analyses
MaxDetectSlots == 2

----------------------------------------------------------------------------
(* Values                                                                   *)

NULL == "NULL"

NoTime == <<>>

TeacherIds == {"t1", "t2", "t3"}

\* the order of the uuids (ORDER BY t.id)
TeacherIdOrder == <<"t1", "t2", "t3">>

\* the order of the slot uuids as strings
SlotIdOrder == <<"s1", "s2", "s3", "s4">>

\* employee codes: "B", "A", "AB" as collation ranks; code order differs
\* from id order
EmployeeCodes == {<<2>>, <<1>>, <<1, 2>>}

----------------------------------------------------------------------------
(* Generic helpers                                                          *)

Min(S) == CHOOSE x \in S : \A y \in S : x <= y

Range(s) == {s[i] : i \in 1..Len(s)}

\* all arrays holding the elements of s in some order
PermutationsOf(s) ==
  LET n == Len(s)
      bij == {f \in [1..n -> 1..n] : \A i, j \in 1..n : i # j => f[i] # f[j]}
  IN  {[i \in 1..n |-> s[f[i]]] : f \in bij}

\* all arrays over S of length at most n
SeqsUpTo(S, n) == UNION {[1..k -> S] : k \in 0..n}

\* Array.prototype.sort / ORDER BY: a stable sort.  cmp[i][j] is the
\* comparator's result on the i-th and j-th element of the array (negative:
\* the i-th first); the result lists the indices in sorted order.  One index
\* at a time is inserted before the first one that must follow it.
InsertStable(sorted, k, cmp) ==
  LET later == {p \in 1..Len(sorted) : cmp[sorted[p]][k] > 0}
      at == IF later = {} THEN Len(sorted) + 1 ELSE Min(later)
  IN  SubSeq(sorted, 1, at - 1) \o <<k>> \o SubSeq(sorted, at, Len(sorted))

StableSortOrder(n, cmp) ==
  LET f[k \in 0..n] == IF k = 0 THEN <<>> ELSE InsertStable(f[k - 1], k, cmp)
  IN  f[n]

----------------------------------------------------------------------------
(* State                                                                    *)

VARIABLES
  timetables,        \* table timetables: rows [id, is_active, deleted]
  time_slots,        \* table time_slots: a set of rows
  time_slots_audit,  \* table time_slots_audit: a set of rows (ids and times left out)
  conflicts,         \* table conflicts: a set of rows
  teachers,          \* table teachers: a set of rows
  teacher_workload,  \* table teacher_workload: one row per (teacher_id, week_start)
  teacher_availability,   \* table teacher_availability: rows in insertion order
  substitution_requests,  \* table substitution_requests: rows in insertion order
  system_settings,   \* table system_settings: rows [key, value]
  current_date,      \* CURRENT_DATE, a day number (day 0 is a Monday)
  sessions,          \* the open database transactions, by session
  lastStatement,     \* TG_OP, OLD and NEW of the last statement on time_slots
  rpcArgs,           \* the arguments of the last find_eligible_substitutes call
  absenceCalls,      \* the detect-absences calls in progress, each with its position
  candidates,        \* the array handed to deterministicTieBreaker (sorted in place)
  sortedCandidates,  \* the array it returned
  timeSlots,         \* detect-conflicts: the array of slots the run analyses
  localChecks,       \* detect-conflicts: what the four local checks returned
  detectResponse,    \* detect-conflicts: the response of the last run
  priorityContext,   \* the SubstitutionContext handed to calculatePriority
  priorityResult,    \* the priority it returned
  recomputeResult,   \* the last direct call of recompute_teacher_workload and its result
  overlapResult,     \* what the overlap tests returned on timeSlots and on its reverse
  enforceResponse,   \* the response of the last enforce-workload call
  ai_suggestions,    \* table ai_suggestions: its rows of suggestion_type 'substitution'
  notifications,     \* table notifications: rows substitution_suggested, workload_violation
  audit_logs,        \* table audit_logs: rows reallocation_suggested, workload_enforcement_run
  reallocateResponse,  \* reallocate-classes: the response of the last run
  lastOp             \* the operation that ran last

schoolVars == <<teachers, teacher_workload, teacher_availability,
                substitution_requests, system_settings, current_date>>

dbVars == <<timetables, time_slots, time_slots_audit, conflicts, schoolVars>>

txVars == <<sessions, lastStatement, rpcArgs, absenceCalls>>

rankVars == <<candidates, sortedCandidates>>

detectVars == <<timeSlots, localChecks, detectResponse>>

callVars == <<priorityContext, priorityResult, recomputeResult, overlapResult,
              enforceResponse>>

reallocVars == <<ai_suggestions, notifications, audit_logs, reallocateResponse>>

vars == <<dbVars, txVars, rankVars, detectVars, callVars, reallocVars, lastOp>>

\* the values of the handlers' variables before any request
RankIdle == candidates = <<>> /\ sortedCandidates = <<>>

NoChecks ==
  [overlaps |-> <<>>, locationConflicts |-> <<>>,
   instructorConflicts |-> <<>>, travelIssues |-> <<>>]

NoResponse == [status |-> 0, conflicts |-> <<>>]

DetectIdle ==
  timeSlots = <<>> /\ localChecks = NoChecks /\ detectResponse = NoResponse

NoContext == [progress_percent |-> 0, subject_weight |-> 0]

NoOverlapResult ==
  [forward |-> FALSE, backward |-> FALSE, pairs |-> <<>>, reversedPairs |-> <<>>]

NoEnforcement ==
  [status |-> 0, week_start |-> 0, teachers_checked |-> 0, overloaded |-> {}]

CallIdle ==
  /\ priorityContext = NoContext /\ priorityResult = "NONE"
  /\ recomputeResult = <<>> /\ overlapResult = NoOverlapResult
  /\ enforceResponse = NoEnforcement

NoReallocation == [status |-> 0, message |-> "NONE", suggestions |-> <<>>]

ReallocIdle ==
  /\ ai_suggestions = {} /\ notifications = {} /\ audit_logs = {}
  /\ reallocateResponse = NoReallocation

NoStatement == [op |-> "NONE"]

NoArgs == [p_time_slot_id |-> NULL]

TxIdle ==
  /\ sessions = <<>> /\ lastStatement = NoStatement /\ rpcArgs = NoArgs
  /\ absenceCalls = <<>>

\* no teacher data at all
SchoolEmpty ==
  /\ teachers = {} /\ teacher_workload = {}
  /\ teacher_availability = <<>> /\ substitution_requests = <<>>
  /\ system_settings = {} /\ current_date = 0

DbEmpty ==
  /\ timetables = {} /\ time_slots = {} /\ time_slots_audit = {}
  /\ conflicts = {} /\ SchoolEmpty

----------------------------------------------------------------------------
(* scheduling-utils.ts                                                      *)

\* String.prototype.localeCompare on two codes: lexicographic, a proper
\* prefix first; the sign is the result
RECURSIVE localeCompare(_, _)
localeCompare(a, b) ==
  IF a = <<>> /\ b = <<>> THEN 0
  ELSE IF a = <<>> THEN -1
  ELSE IF b = <<>> THEN 1
  ELSE IF Head(a) < Head(b) THEN -1
  ELSE IF Head(a) > Head(b) THEN 1
  ELSE localeCompare(Tail(a), Tail(b))

\* mutant: the final tie-break on employee code is missing
TieBreakCompareNoCode(a, b) ==
  IF a.match_score # b.match_score THEN b.match_score - a.match_score
  ELSE IF a.available_minutes # b.available_minutes
       THEN b.available_minutes - a.available_minutes
  ELSE 0

\* mutant: fewer available minutes first
TieBreakCompareLessAvailable(a, b) ==
  IF a.match_score # b.match_score THEN b.match_score - a.match_score
  ELSE IF a.available_minutes # b.available_minutes
       THEN a.available_minutes - b.available_minutes
  ELSE localeCompare(a.employee_code, b.employee_code)

\* the comparator of deterministicTieBreaker
TieBreakCompare(a, b) ==
  IF a.match_score # b.match_score THEN b.match_score - a.match_score
  ELSE IF a.available_minutes # b.available_minutes
       THEN b.available_minutes - a.available_minutes
  ELSE localeCompare(a.employee_code, b.employee_code)

deterministicTieBreaker(cs) ==
  LET n == Len(cs)
      cmp == [i \in 1..n |-> [j \in 1..n |-> TieBreakCompare(cs[i], cs[j])]]
      order == StableSortOrder(n, cmp)
  IN  [k \in 1..n |-> cs[order[k]]]

----------------------------------------------------------------------------
(* Specification SpecRank: deterministicTieBreaker on arbitrary arrays      *)

RankScores == {3, 8}

RankMinutes == {0, 60}

CandidateInputs ==
  [teacher_id : {"t1"}, employee_code : EmployeeCodes,
   match_score : RankScores, available_minutes : RankMinutes]

InitRank ==
  /\ candidates \in SeqsUpTo(CandidateInputs, MaxCandidates)
  /\ sortedCandidates = <<>>
  /\ DbEmpty
  /\ TxIdle
  /\ DetectIdle
  /\ CallIdle
  /\ ReallocIdle
  /\ lastOp = "init"

\* sortedCandidates = deterministicTieBreaker(candidates): the array is
\* sorted in place and returned
RankCandidates ==
  /\ lastOp = "init"
  /\ candidates' = deterministicTieBreaker(candidates)
  /\ sortedCandidates' = deterministicTieBreaker(candidates)
  /\ lastOp' = "rank"
  /\ UNCHANGED <<dbVars, txVars, detectVars, callVars, reallocVars>>

NextRank == RankCandidates

SpecRank == InitRank /\ [][NextRank]_vars

----------------------------------------------------------------------------
(* conflict-utils.ts                                                        *)

\* JavaScript falsiness of an optional text field: undefined, null or ""
Falsy(x) == x = NULL \/ x = ""

\* timeToMinutes("HH:MM") = hours * 60 + minutes
timeToMinutes(time) == time[1] * 60 + time[2]

\* the index pairs (i, j), i < j, in the order the nested loops visit them
RECURSIVE PairScan(_, _, _)
PairScan(n, i, j) ==
  IF i > n THEN <<>>
  ELSE IF j > n THEN PairScan(n, i + 1, i + 2)
  ELSE <<(<<i, j>>)>> \o PairScan(n, i, j + 1)

\* the test with closed intervals: slots that touch would overlap
MinutesOverlapClosed(slot1, slot2) ==
  /\ timeToMinutes(slot1.start_time) <= timeToMinutes(slot2.end_time)
  /\ timeToMinutes(slot2.start_time) <= timeToMinutes(slot1.end_time)

\* start1 < end2 && start2 < end1 on two slots
MinutesOverlap(slot1, slot2) ==
  /\ timeToMinutes(slot1.start_time) < timeToMinutes(slot2.end_time)
  /\ timeToMinutes(slot2.start_time) < timeToMinutes(slot1.end_time)

\* the pairs [slots[i], slots[j]] the nested loops push; hits holds the
\* index pairs that pass the test of the loop body
ScanPairs(slots, hits) ==
  LET ij == PairScan(Len(slots), 1, 2)
      Keep(p) == p \in hits
      kept == SelectSeq(ij, Keep)
  IN  [k \in 1..Len(kept) |-> <<slots[kept[k][1]], slots[kept[k][2]]>>]

IndexPairs(slots) == {p \in (1..Len(slots)) \X (1..Len(slots)) : p[1] < p[2]}

OverlapHit(slot1, slot2) ==
  /\ slot1.day_of_week = slot2.day_of_week
  /\ MinutesOverlap(slot1, slot2)

quickOverlapCheck(slots) ==
  ScanPairs(slots, {p \in IndexPairs(slots) : OverlapHit(slots[p[1]], slots[p[2]])})

\* the test without the guard on missing locations
LocationHitNoGate(slot1, slot2) ==
  /\ slot1.location = slot2.location
  /\ slot1.day_of_week = slot2.day_of_week
  /\ MinutesOverlap(slot1, slot2)

LocationHit(slot1, slot2) ==
  /\ ~Falsy(slot1.location) /\ ~Falsy(slot2.location)
  /\ slot1.location = slot2.location
  /\ slot1.day_of_week = slot2.day_of_week
  /\ MinutesOverlap(slot1, slot2)

checkLocationConflicts(slots) ==
  ScanPairs(slots, {p \in IndexPairs(slots) : LocationHit(slots[p[1]], slots[p[2]])})

\* the test without the guard on missing instructors
InstructorHitNoGate(slot1, slot2) ==
  /\ slot1.instructor = slot2.instructor
  /\ slot1.day_of_week = slot2.day_of_week
  /\ MinutesOverlap(slot1, slot2)

InstructorHit(slot1, slot2) ==
  /\ ~Falsy(slot1.instructor) /\ ~Falsy(slot2.instructor)
  /\ slot1.instructor = slot2.instructor
  /\ slot1.day_of_week = slot2.day_of_week
  /\ MinutesOverlap(slot1, slot2)

checkInstructorConflicts(slots) ==
  ScanPairs(slots, {p \in IndexPairs(slots) : InstructorHit(slots[p[1]], slots[p[2]])})

\* the keys of slotsByDay in insertion order: each day at its first slot
DaysInOrder(slots) ==
  LET First(i) == \A j \in 1..(i - 1) : slots[j].day_of_week # slots[i].day_of_week
      firsts == SelectSeq([i \in 1..Len(slots) |-> i], First)
  IN  [k \in 1..Len(firsts) |-> slots[firsts[k]].day_of_week]

StartTimeCompare(a, b) == timeToMinutes(a.start_time) - timeToMinutes(b.start_time)

\* the issues of one day with the threshold itself counted as too short
DayTravelIssuesInclusive(daySlots, minTravelMinutes) ==
  LET n == Len(daySlots)
      cmp == [i \in 1..n |-> [j \in 1..n |-> StartTimeCompare(daySlots[i], daySlots[j])]]
      order == StableSortOrder(n, cmp)
      sorted == [k \in 1..n |-> daySlots[order[k]]]
      Issue(i) ==
        LET current == sorted[i]
            next == sorted[i + 1]
            gap == timeToMinutes(next.start_time) - timeToMinutes(current.end_time)
        IN  /\ ~Falsy(current.location) /\ ~Falsy(next.location)
            /\ current.location # next.location
            /\ gap <= minTravelMinutes
      at == SelectSeq([i \in 1..(Len(sorted) - 1) |-> i], Issue)
  IN  [k \in 1..Len(at) |-> <<sorted[at[k]], sorted[at[k] + 1]>>]

\* the issues of one day: its slots sorted by start time, adjacent pairs only
DayTravelIssues(daySlots, minTravelMinutes) ==
  LET n == Len(daySlots)
      cmp == [i \in 1..n |-> [j \in 1..n |-> StartTimeCompare(daySlots[i], daySlots[j])]]
      order == StableSortOrder(n, cmp)
      sorted == [k \in 1..n |-> daySlots[order[k]]]
      Issue(i) ==
        LET current == sorted[i]
            next == sorted[i + 1]
            gap == timeToMinutes(next.start_time) - timeToMinutes(current.end_time)
        IN  /\ ~Falsy(current.location) /\ ~Falsy(next.location)
            /\ current.location # next.location
            /\ gap < minTravelMinutes
      at == SelectSeq([i \in 1..(Len(sorted) - 1) |-> i], Issue)
  IN  [k \in 1..Len(at) |-> <<sorted[at[k]], sorted[at[k] + 1]>>]

checkTravelTimeIssues(slots, minTravelMinutes) ==
  LET days == DaysInOrder(slots)
      OfDay(d) == LET On(s) == s.day_of_week = d IN SelectSeq(slots, On)
      f[n \in 0..Len(days)] ==
        IF n = 0 THEN <<>>
        ELSE f[n - 1] \o DayTravelIssues(OfDay(days[n]), minTravelMinutes)
  IN  f[Len(days)]

\* minTravelMinutes: number = 15
DefaultMinTravelMinutes == 15

\* scheduling-utils.ts, checkTimeOverlap with the second test made inclusive
checkTimeOverlapInclusive(start1, end1, start2, end2) ==
  /\ timeToMinutes(start1) <= timeToMinutes(end2)
  /\ timeToMinutes(start2) < timeToMinutes(end1)

\* scheduling-utils.ts: s1 < e2 && s2 < e1
checkTimeOverlap(start1, end1, start2, end2) ==
  /\ timeToMinutes(start1) < timeToMinutes(end2)
  /\ timeToMinutes(start2) < timeToMinutes(end1)

----------------------------------------------------------------------------
(* detect-conflicts/index.ts                                                *)

\* text order of the day names (.order('day_of_week'))
DayNameOrder ==
  <<"Friday", "Monday", "Saturday", "Sunday", "Thursday", "Tuesday", "Wednesday">>

IndexIn(seq, x) == CHOOSE i \in 1..Len(seq) : seq[i] = x

\* the rows of a timetable as the select returns them: ordered by
\* day_of_week, then start_time; rows equal in both come in any order
SlotsOfTimetable(timetableId) ==
  LET rows == {r \in time_slots : r.timetable_id = timetableId}
      Key(r) == <<IndexIn(DayNameOrder, r.day_of_week), timeToMinutes(r.start_time)>>
      Before(a, b) ==
        \/ Key(a)[1] < Key(b)[1]
        \/ Key(a)[1] = Key(b)[1] /\ Key(a)[2] <= Key(b)[2]
  IN  {arr \in [1..Cardinality(rows) -> rows] :
         /\ \A i, j \in DOMAIN arr : i # j => arr[i] # arr[j]
         /\ \A i, j \in DOMAIN arr : i < j => Before(arr[i], arr[j])}

\* timeSlots.length > 5 also calls the AI service
AiSlotThreshold == 5

\* what the AI service may answer: detectConflicts returns {conflicts: []}
\* without an API key or on any error, else the parsed reply, whose conflicts
\* name slots of the request
AiReplies(slots, overlaps) ==
  LET mirror == [k \in 1..Len(overlaps) |->
                   [type |-> "time_overlap", severity |-> "high",
                    slot1_id |-> overlaps[k][1].id, slot2_id |-> overlaps[k][2].id]]
      single == <<[type |-> "travel_time", severity |-> "low",
                   slot1_id |-> slots[1].id, slot2_id |-> NULL]>>
  IN  {[kind |-> "no_key", conflicts |-> <<>>],
       [kind |-> "error", conflicts |-> <<>>],
       [kind |-> "ok", conflicts |-> <<>>],
       [kind |-> "ok", conflicts |-> mirror],
       [kind |-> "ok", conflicts |-> single]}

ConflictRow(timetableId, c) ==
  [timetable_id |-> timetableId, conflict_type |-> c.type, severity |-> c.severity,
   slot1_id |-> c.slot1_id, slot2_id |-> c.slot2_id]

\* the four fast local pre-checks of the handler
LocalChecks(slots) ==
  [overlaps |-> quickOverlapCheck(slots),
   locationConflicts |-> checkLocationConflicts(slots),
   instructorConflicts |-> checkInstructorConflicts(slots),
   travelIssues |-> checkTravelTimeIssues(slots, DefaultMinTravelMinutes)]

\* the handler from the local pre-checks on, for the array slots of a run
\* that is a demo run or not
AnalyseAndPersist(timetableId, slots, isDemo) ==
  \E checks \in {LocalChecks(slots)} :
    LET hasLocalConflicts ==
          \/ Len(checks.overlaps) > 0 \/ Len(checks.locationConflicts) > 0
          \/ Len(checks.instructorConflicts) > 0 \/ Len(checks.travelIssues) > 0
        callsAi == hasLocalConflicts \/ Len(slots) > AiSlotThreshold
    IN  \E reply \in AiReplies(slots, checks.overlaps) :
          LET aiResult == IF callsAi THEN reply.conflicts ELSE <<>>
              conflictsToInsert ==
                [k \in 1..Len(aiResult) |-> ConflictRow(timetableId, aiResult[k])]
          IN  /\ callsAi \/ reply.kind = "no_key"
              /\ localChecks' = checks
              /\ conflicts' =
                   IF ~isDemo /\ Len(conflictsToInsert) > 0
                   THEN {c \in conflicts : c.timetable_id # timetableId}
                          \cup Range(conflictsToInsert)
                   ELSE conflicts
              /\ detectResponse' = [status |-> 200, conflicts |-> conflictsToInsert]

\* POST detect-conflicts with a token, for a timetable the caller may read
DetectConflictsAuth(timetableId) ==
  /\ \E t \in timetables : t.id = timetableId
  /\ \E slots \in SlotsOfTimetable(timetableId) :
       /\ timeSlots' = slots
       /\ IF Len(slots) = 0
          THEN /\ detectResponse' = [status |-> 200, conflicts |-> <<>>]
               /\ localChecks' = NoChecks
               /\ conflicts' = conflicts
          ELSE AnalyseAndPersist(timetableId, slots, FALSE)
  /\ lastOp' = "detect_auth"
  /\ UNCHANGED <<timetables, time_slots, time_slots_audit, schoolVars, txVars,
                 rankVars, callVars, reallocVars>>

\* POST detect-conflicts without a token and with inline time_slots (demo)
DetectConflictsDemo(timetableId) ==
  /\ \E given \in SlotsOfTimetable(timetableId) :
       \E slots \in PermutationsOf(given) :
         /\ timeSlots' = slots
         /\ IF Len(slots) = 0
            THEN /\ detectResponse' = [status |-> 200, conflicts |-> <<>>]
                 /\ localChecks' = NoChecks
                 /\ conflicts' = conflicts
            ELSE AnalyseAndPersist(timetableId, slots, TRUE)
  /\ lastOp' = "detect_demo"
  /\ UNCHANGED <<timetables, time_slots, time_slots_audit, schoolVars, txVars,
                 rankVars, callVars, reallocVars>>

----------------------------------------------------------------------------
(* Specification SpecDetect: detection runs over one timetable              *)

DetectDays == {"Monday", "Tuesday"}

\* 09:00-10:00, 09:30-10:30, 10:00-11:00
DetectIntervals == {<<(<<9, 0>>), (<<10, 0>>)>>, <<(<<9, 30>>), (<<10, 30>>)>>,
                    <<(<<10, 0>>), (<<11, 0>>)>>}

DetectLocations == {NULL, "Room101", "Room102"}

DetectInstructors == {NULL, "Dr.Smith"}

\* a row of time_slots: the columns of the base schema, with the columns of
\* migration 003 at their defaults
SlotRow(id, timetableId, day, interval, location, instructor) ==
  [id |-> id, timetable_id |-> timetableId, day_of_week |-> day,
   start_time |-> interval[1], end_time |-> interval[2],
   location |-> location, instructor |-> instructor,
   teacher_id |-> NULL, subject_code |-> NULL, status |-> "scheduled",
   substitution_request_id |-> NULL, original_teacher_id |-> NULL]

InitDetect ==
  /\ timetables = {[id |-> "tt1", is_active |-> TRUE, deleted |-> FALSE]}
  /\ \E n \in 0..MaxDetectSlots :
       \E day \in [1..n -> DetectDays], interval \in [1..n -> DetectIntervals],
          location \in [1..n -> DetectLocations],
          instructor \in [1..n -> DetectInstructors] :
         time_slots = {SlotRow(SlotIdOrder[i], "tt1", day[i], interval[i],
                               location[i], instructor[i]) : i \in 1..n}
  /\ conflicts = {}
  /\ time_slots_audit = {}
  /\ SchoolEmpty
  /\ TxIdle
  /\ RankIdle
  /\ DetectIdle
  /\ CallIdle
  /\ ReallocIdle
  /\ lastOp = "init"

NextDetect ==
  \/ DetectConflictsAuth("tt1")
  \/ DetectConflictsDemo("tt1")

SpecDetect == InitDetect /\ [][NextDetect]_vars

----------------------------------------------------------------------------
(* The database: the tables a function reads are the fields of a record db  *)

Db ==
  [timetables |-> timetables, time_slots |-> time_slots,
   time_slots_audit |-> time_slots_audit, teachers |-> teachers,
   teacher_workload |-> teacher_workload,
   teacher_availability |-> teacher_availability,
   substitution_requests |-> substitution_requests,
   system_settings |-> system_settings, current_date |-> current_date]

\* a row of time_slots with a teacher, a subject and a status
TaughtSlot(id, timetableId, day, interval, teacher, subject, status) ==
  [SlotRow(id, timetableId, day, interval, NULL, NULL) EXCEPT
     !.teacher_id = teacher, !.subject_code = subject, !.status = status]

\* EXTRACT(DOW FROM date): 0 is Sunday; day number 0 is a Monday
DayOfWeekNumber(date) == (date + 1) % 7

\* EXTRACT(EPOCH FROM (end_time - start_time)) / 60
DurationMinutes(row) == timeToMinutes(row.end_time) - timeToMinutes(row.start_time)

----------------------------------------------------------------------------
(* migration 005: teacher workload                                          *)

get_week_start(p_date) == p_date - ((DayOfWeekNumber(p_date) + 6) % 7)

RECURSIVE SumOfDurations(_)
SumOfDurations(rows) ==
  IF rows = {} THEN 0
  ELSE LET r == CHOOSE x \in rows : TRUE
       IN  DurationMinutes(r) + SumOfDurations(rows \ {r})

\* the SELECT COALESCE(SUM(...), 0) of recompute_teacher_workload: every
\* scheduled or substituted slot of the teacher in an active timetable
TotalMinutes(slots, tts, p_teacher_id) ==
  SumOfDurations({r \in slots :
    /\ r.teacher_id = p_teacher_id
    /\ r.status \in {"scheduled", "substituted"}
    /\ \E t \in tts : t.id = r.timetable_id /\ t.is_active /\ ~t.deleted})

\* INSERT ... ON CONFLICT (teacher_id, week_start) DO UPDATE
UpsertWorkload(workload, p_teacher_id, p_week_start, total_minutes) ==
  {w \in workload : ~(w.teacher_id = p_teacher_id /\ w.week_start = p_week_start)}
    \cup {[teacher_id |-> p_teacher_id, week_start |-> p_week_start,
           assigned_minutes |-> total_minutes]}

recompute_teacher_workload(db, p_teacher_id, p_week_start) ==
  [db EXCEPT !.teacher_workload =
     UpsertWorkload(@, p_teacher_id, p_week_start,
                    TotalMinutes(db.time_slots, db.timetables, p_teacher_id))]

\* the teachers the AFTER ROW trigger recomputes, in order.
\* OLD.teacher_id != NEW.teacher_id is NULL, hence not true, when either
\* side is NULL.
TriggerRecomputes(op, old, new) ==
  (IF /\ op = "UPDATE" /\ old.teacher_id # NULL
      /\ new.teacher_id # NULL /\ old.teacher_id # new.teacher_id
   THEN <<old.teacher_id>> ELSE <<>>)
  \o (IF op = "DELETE"
      THEN IF old.teacher_id # NULL THEN <<old.teacher_id>> ELSE <<>>
      ELSE IF new.teacher_id # NULL THEN <<new.teacher_id>> ELSE <<>>)

\* the AFTER ROW trigger of time_slots; db already holds the changed row
trigger_update_teacher_workload(db, op, old, new) ==
  LET week_start == get_week_start(db.current_date)
      todo == TriggerRecomputes(op, old, new)
      f[k \in 0..Len(todo)] ==
        IF k = 0 THEN db
        ELSE recompute_teacher_workload(f[k - 1], todo[k], week_start)
  IN  f[Len(todo)]

----------------------------------------------------------------------------
(* Statements on time_slots, each with the constraints and the trigger      *)

AllowedWeekdays ==
  {"Monday", "Tuesday", "Wednesday", "Thursday", "Friday", "Saturday"}

\* the constraints without end_time <= '17:00'
SlotChecksPassNoClosing(row) ==
  /\ row.day_of_week \in AllowedWeekdays
  /\ timeToMinutes(row.start_time) >= timeToMinutes(<<9, 0>>)
  /\ timeToMinutes(row.start_time) < timeToMinutes(row.end_time)
  /\ row.status \in {"scheduled", "cancelled", "substituted", "completed"}

\* check_valid_weekday, check_business_hours and the CHECK on status
SlotChecksPass(row) ==
  /\ row.day_of_week \in AllowedWeekdays
  /\ timeToMinutes(row.start_time) >= timeToMinutes(<<9, 0>>)
  /\ timeToMinutes(row.end_time) <= timeToMinutes(<<17, 0>>)
  /\ timeToMinutes(row.start_time) < timeToMinutes(row.end_time)
  /\ row.status \in {"scheduled", "cancelled", "substituted", "completed"}

NoRow == [id |-> NULL, teacher_id |-> NULL]

\* the CASE of log_invalid_time_slot
RejectionReason(new) ==
  IF new.day_of_week \notin AllowedWeekdays THEN "Invalid day"
  ELSE IF \/ timeToMinutes(new.start_time) < timeToMinutes(<<9, 0>>)
          \/ timeToMinutes(new.end_time) > timeToMinutes(<<17, 0>>)
       THEN "Invalid time"
  ELSE "Unknown constraint violation"

\* the row the BEFORE INSERT OR UPDATE trigger writes for NEW
AuditRow(new) ==
  [original_slot_id |-> new.id, timetable_id |-> new.timetable_id,
   day_of_week |-> new.day_of_week, start_time |-> new.start_time,
   end_time |-> new.end_time, rejection_reason |-> RejectionReason(new)]

\* BEFORE INSERT OR UPDATE ... FOR EACH ROW: runs for every row written,
\* before the constraints are checked
log_invalid_time_slot(db, new) ==
  [db EXCEPT !.time_slots_audit = @ \cup {AuditRow(new)}]

\* INSERT INTO time_slots: the database after the statement
InsertSlotDb(db, row) ==
  trigger_update_teacher_workload(
    [log_invalid_time_slot(db, row) EXCEPT !.time_slots = @ \cup {row}],
    "INSERT", NoRow, row)

\* UPDATE time_slots SET ... WHERE id = old.id
UpdateSlotDb(db, old, new) ==
  trigger_update_teacher_workload(
    [log_invalid_time_slot(db, new) EXCEPT !.time_slots = (@ \ {old}) \cup {new}],
    "UPDATE", old, new)

\* DELETE FROM time_slots WHERE id = old.id
DeleteSlotDb(db, old) ==
  trigger_update_teacher_workload(
    [db EXCEPT !.time_slots = @ \ {old}], "DELETE", old, NoRow)

\* the tables a statement or a handler writes take their values from db
StoreDb(db) ==
  /\ time_slots' = db.time_slots
  /\ time_slots_audit' = db.time_slots_audit
  /\ teacher_workload' = db.teacher_workload
  /\ teacher_availability' = db.teacher_availability
  /\ substitution_requests' = db.substitution_requests
  /\ UNCHANGED <<timetables, conflicts, teachers, system_settings, current_date>>

InsertSlot(row) ==
  /\ ~\E r \in time_slots : r.id = row.id
  /\ \E t \in timetables : t.id = row.timetable_id
  /\ SlotChecksPass(row)
  /\ StoreDb(InsertSlotDb(Db, row))
  /\ lastStatement' = [op |-> "INSERT", old_teacher_id |-> NULL,
                       new_teacher_id |-> row.teacher_id]
  /\ lastOp' = "insert_slot"
  /\ UNCHANGED <<sessions, rpcArgs, absenceCalls, rankVars, callVars, reallocVars, detectVars>>

UpdateSlot(old, new) ==
  /\ old \in time_slots
  /\ new.id = old.id
  /\ SlotChecksPass(new)
  /\ StoreDb(UpdateSlotDb(Db, old, new))
  /\ lastStatement' = [op |-> "UPDATE", old_teacher_id |-> old.teacher_id,
                       new_teacher_id |-> new.teacher_id]
  /\ lastOp' = "update_slot"
  /\ UNCHANGED <<sessions, rpcArgs, absenceCalls, rankVars, callVars, reallocVars, detectVars>>

\* an INSERT that fails a CHECK: the statement is rolled back, the row of
\* the BEFORE trigger with it
InsertSlotRejected(row) ==
  /\ ~\E r \in time_slots : r.id = row.id
  /\ \E t \in timetables : t.id = row.timetable_id
  /\ ~SlotChecksPass(row)
  /\ lastStatement' = [op |-> "INSERT", old_teacher_id |-> NULL,
                       new_teacher_id |-> row.teacher_id]
  /\ lastOp' = "insert_rejected"
  /\ UNCHANGED <<dbVars, sessions, rpcArgs, absenceCalls, rankVars, callVars, reallocVars, detectVars>>

\* an UPDATE that fails a CHECK
UpdateSlotRejected(old, new) ==
  /\ old \in time_slots
  /\ new.id = old.id
  /\ ~SlotChecksPass(new)
  /\ lastStatement' = [op |-> "UPDATE", old_teacher_id |-> old.teacher_id,
                       new_teacher_id |-> new.teacher_id]
  /\ lastOp' = "update_rejected"
  /\ UNCHANGED <<dbVars, sessions, rpcArgs, absenceCalls, rankVars, callVars, reallocVars, detectVars>>

DeleteSlot(old) ==
  /\ old \in time_slots
  /\ StoreDb(DeleteSlotDb(Db, old))
  /\ lastStatement' = [op |-> "DELETE", old_teacher_id |-> old.teacher_id,
                       new_teacher_id |-> NULL]
  /\ lastOp' = "delete_slot"
  /\ UNCHANGED <<sessions, rpcArgs, absenceCalls, rankVars, callVars, reallocVars, detectVars>>

----------------------------------------------------------------------------
(* Specification SpecWorkload: statements on time_slots and the trigger     *)

WorkloadTeachers == {NULL, "t1", "t2"}

\* 09:00-10:00 and 09:00-11:00
WorkloadIntervals == {<<(<<9, 0>>), (<<10, 0>>)>>, <<(<<9, 0>>), (<<11, 0>>)>>}

WorkloadStatuses == {"scheduled", "cancelled", "substituted"}

WorkloadSlotIds == {"s1", "s2"}

\* the rows a client writes
WorkloadRows ==
  {TaughtSlot(id, "tt1", "Monday", interval, teacher, "MATH", status) :
     id \in WorkloadSlotIds, interval \in WorkloadIntervals,
     teacher \in WorkloadTeachers, status \in WorkloadStatuses}

TeacherRow(id, code, subjects, hours, status) ==
  [id |-> id, employee_code |-> code, subjects |-> subjects,
   max_weekly_hours |-> hours, status |-> status]

\* max_weekly_hours INTEGER DEFAULT 18
DefaultMaxWeeklyHours == 18

\* '1080'::JSONB, the default of teacher_max_weekly_minutes
DefaultMaxWeeklyMinutes == 1080

DefaultSettings ==
  {[key |-> "teacher_max_weekly_minutes", value |-> DefaultMaxWeeklyMinutes]}

\* a Wednesday
MidWeek == 2

InitWorkload ==
  /\ timetables = {[id |-> "tt1", is_active |-> TRUE, deleted |-> FALSE]}
  /\ time_slots = {}
  /\ conflicts = {}
  /\ time_slots_audit = {}
  /\ teachers = {TeacherRow("t1", <<2>>, {"MATH"}, DefaultMaxWeeklyHours, "active"),
                 TeacherRow("t2", <<1>>, {"MATH"}, DefaultMaxWeeklyHours, "active")}
  /\ teacher_workload = {}
  /\ teacher_availability = <<>>
  /\ substitution_requests = <<>>
  /\ system_settings = DefaultSettings
  /\ current_date = MidWeek
  /\ TxIdle
  /\ RankIdle
  /\ DetectIdle
  /\ CallIdle
  /\ ReallocIdle
  /\ lastOp = "init"

NextWorkload ==
  \/ \E row \in WorkloadRows : InsertSlot(row)
  \/ \E old \in time_slots : \E new \in WorkloadRows : UpdateSlot(old, new)
  \/ \E old \in time_slots : DeleteSlot(old)

SpecWorkload == InitWorkload /\ [][NextWorkload]_vars

----------------------------------------------------------------------------
(* Concurrent transactions on time_slots (READ COMMITTED)                   *)
(*                                                                          *)
(* time_slots and teacher_workload hold the committed rows.  A session runs *)
(* one statement in a transaction of its own: the row change and the        *)
(* trigger's SUM see the committed rows and the session's own change; the   *)
(* trigger's upsert waits while another open transaction has written the    *)
(* same workload row, then writes the total this session computed; commit   *)
(* publishes the row change and the workload row.                           *)

SessionIds == {"A", "B"}

IdleSession == [pc |-> "idle"]

\* the rows of time_slots a session sees: the committed ones and its change
SessionSlots(slots, stmt) ==
  IF stmt.op = "INSERT" THEN slots \cup {stmt.new}
  ELSE IF stmt.op = "UPDATE" THEN (slots \ {stmt.old}) \cup {stmt.new}
  ELSE slots \ {stmt.old}

\* the workload rows other open transactions have written and not committed
LockedKeys(s) ==
  {<<sessions[o].teacher_id, sessions[o].week_start>> :
     o \in {x \in SessionIds \ {s} : sessions[x].pc = "upserted"}}

\* BEGIN; the statement stmt; the trigger up to the SELECT ... SUM
TxStatement(s, stmt) ==
  /\ sessions[s].pc = "idle"
  /\ \A o \in SessionIds \ {s} :
       IF sessions[o].pc = "idle" THEN TRUE ELSE sessions[o].stmt.id # stmt.id
  /\ IF stmt.op = "INSERT"
     THEN ~\E r \in time_slots : r.id = stmt.new.id
     ELSE stmt.old \in time_slots
  /\ IF stmt.op = "DELETE" THEN TRUE ELSE SlotChecksPass(stmt.new)
  /\ Len(TriggerRecomputes(stmt.op, stmt.old, stmt.new)) = 1
  /\ sessions' = [sessions EXCEPT ![s] =
       [pc |-> "summed", stmt |-> stmt,
        teacher_id |-> TriggerRecomputes(stmt.op, stmt.old, stmt.new)[1],
        week_start |-> get_week_start(current_date),
        total_minutes |->
          TotalMinutes(SessionSlots(time_slots, stmt), timetables,
                       TriggerRecomputes(stmt.op, stmt.old, stmt.new)[1])]]
  /\ lastOp' = "tx_statement"
  /\ UNCHANGED <<dbVars, lastStatement, rpcArgs, absenceCalls, rankVars, callVars, reallocVars, detectVars>>

\* the trigger's INSERT ... ON CONFLICT DO UPDATE, once the row is free
TxUpsert(s) ==
  /\ sessions[s].pc = "summed"
  /\ <<sessions[s].teacher_id, sessions[s].week_start>> \notin LockedKeys(s)
  /\ sessions' = [sessions EXCEPT ![s].pc = "upserted"]
  /\ lastOp' = "tx_upsert"
  /\ UNCHANGED <<dbVars, lastStatement, rpcArgs, absenceCalls, rankVars, callVars, reallocVars, detectVars>>

TxCommit(s) ==
  /\ sessions[s].pc = "upserted"
  /\ time_slots' = SessionSlots(time_slots, sessions[s].stmt)
  /\ time_slots_audit' =
       IF sessions[s].stmt.op = "DELETE" THEN time_slots_audit
       ELSE time_slots_audit \cup {AuditRow(sessions[s].stmt.new)}
  /\ teacher_workload' =
       UpsertWorkload(teacher_workload, sessions[s].teacher_id,
                      sessions[s].week_start, sessions[s].total_minutes)
  /\ sessions' = [sessions EXCEPT ![s].pc = "committed"]
  /\ lastOp' = "tx_commit"
  /\ UNCHANGED <<timetables, conflicts, teachers, teacher_availability,
                 substitution_requests, system_settings, current_date,
                 lastStatement, rpcArgs, absenceCalls, rankVars, detectVars, callVars,
                 reallocVars>>

----------------------------------------------------------------------------
(* Specification SpecConc: two transactions on the slots of one teacher     *)

\* 09:00-10:00 and 10:00-12:00
ConcIntervals == {<<(<<9, 0>>), (<<10, 0>>)>>, <<(<<10, 0>>), (<<12, 0>>)>>}

ConcRows ==
  {TaughtSlot(id, "tt1", "Monday", interval, "t1", "MATH", status) :
     id \in {"s1", "s2"}, interval \in ConcIntervals,
     status \in {"scheduled", "cancelled"}}

\* the statements a session may run
ConcStatements ==
  {[op |-> "INSERT", id |-> new.id, old |-> NoRow, new |-> new] : new \in ConcRows}
  \cup {[op |-> "UPDATE", id |-> p[1].id, old |-> p[1], new |-> p[2]] :
          p \in {q \in time_slots \X ConcRows : q[1].id = q[2].id}}
  \cup {[op |-> "DELETE", id |-> old.id, old |-> old, new |-> NoRow] :
          old \in time_slots}

\* the workload rows as the trigger leaves them when statements run one
\* after the other
FreshWorkload(slots, tts, teacherIds, week) ==
  {[teacher_id |-> t, week_start |-> week,
    assigned_minutes |-> TotalMinutes(slots, tts, t)] : t \in teacherIds}

InitConc ==
  /\ timetables = {[id |-> "tt1", is_active |-> TRUE, deleted |-> FALSE]}
  /\ \E rows \in SUBSET {r \in ConcRows : r.status = "scheduled"} :
       /\ \A a, b \in rows : a.id = b.id => a = b
       /\ time_slots = rows
  /\ conflicts = {}
  /\ time_slots_audit = {}
  /\ teachers = {TeacherRow("t1", <<2>>, {"MATH"}, DefaultMaxWeeklyHours, "active")}
  /\ current_date = MidWeek
  /\ teacher_workload =
       FreshWorkload(time_slots, timetables, {"t1"}, get_week_start(current_date))
  /\ teacher_availability = <<>>
  /\ substitution_requests = <<>>
  /\ system_settings = DefaultSettings
  /\ sessions = [s \in SessionIds |-> IdleSession]
  /\ lastStatement = NoStatement
  /\ rpcArgs = NoArgs
  /\ absenceCalls = <<>>
  /\ RankIdle
  /\ DetectIdle
  /\ CallIdle
  /\ ReallocIdle
  /\ lastOp = "init"

NextConc ==
  \/ \E s \in SessionIds : \E stmt \in ConcStatements : TxStatement(s, stmt)
  \/ \E s \in SessionIds : TxUpsert(s)
  \/ \E s \in SessionIds : TxCommit(s)

SpecConc == InitConc /\ [][NextConc]_vars

----------------------------------------------------------------------------
(* migration 004: availability; migration 007: settings and eligibility     *)

\* a < b on two TIME values
TimeLess(a, b) == timeToMinutes(a) < timeToMinutes(b)

\* mutant: records of every type block, not only the unavailable ones
is_teacher_availableAnyType(db, p_teacher_id, p_date, p_start_time, p_end_time) ==
  LET Blocks(a) ==
        /\ a.teacher_id = p_teacher_id
        /\ a.date = p_date
        /\ \/ a.start_time = NoTime /\ a.end_time = NoTime
           \/ /\ a.start_time # NoTime /\ a.end_time # NoTime
              /\ TimeLess(a.start_time, p_end_time)
              /\ TimeLess(p_start_time, a.end_time)
      unavailable_count == Len(SelectSeq(db.teacher_availability, Blocks))
  IN  unavailable_count = 0

\* is_teacher_available: no unavailable record of that date covers the whole
\* day or overlaps the range; a comparison with a NULL time is not true
is_teacher_available(db, p_teacher_id, p_date, p_start_time, p_end_time) ==
  LET Blocks(a) ==
        /\ a.teacher_id = p_teacher_id
        /\ a.date = p_date
        /\ a.type = "unavailable"
        /\ \/ a.start_time = NoTime /\ a.end_time = NoTime
           \/ /\ a.start_time # NoTime /\ a.end_time # NoTime
              /\ TimeLess(a.start_time, p_end_time)
              /\ TimeLess(p_start_time, a.end_time)
      unavailable_count == Len(SelectSeq(db.teacher_availability, Blocks))
  IN  unavailable_count = 0

get_setting(db, p_key, p_default) ==
  IF \E row \in db.system_settings : row.key = p_key
  THEN (CHOOSE row \in db.system_settings : row.key = p_key).value
  ELSE p_default

\* teachers LEFT JOIN teacher_workload on the week of p_date: one row per
\* teacher, tw_null when the teacher has no workload row of that week
JoinWorkload(db, p_date) ==
  {[t |-> t,
    tw_null |-> ~\E w \in db.teacher_workload :
                  w.teacher_id = t.id /\ w.week_start = get_week_start(p_date),
    assigned_minutes |->
      IF \E w \in db.teacher_workload :
           w.teacher_id = t.id /\ w.week_start = get_week_start(p_date)
      THEN (CHOOSE w \in db.teacher_workload :
              w.teacher_id = t.id /\ w.week_start = get_week_start(p_date)
           ).assigned_minutes
      ELSE 0] : t \in db.teachers}

\* mutant: the cap test leaves the slot's duration out
WithinCapNoDuration(assigned_minutes, duration_minutes, max_minutes) ==
  assigned_minutes <= max_minutes

\* (COALESCE(tw.assigned_minutes, 0) + duration_minutes) <= max_minutes
WithinCap(assigned_minutes, duration_minutes, max_minutes) ==
  assigned_minutes + duration_minutes <= max_minutes

\* the WHERE clause on a joined row j (assigned_minutes is the COALESCE)
EligibleWhere(db, j, slot_record, p_date, max_minutes) ==
  /\ j.t.status = "active"
  /\ is_teacher_available(db, j.t.id, p_date,
                          slot_record.start_time, slot_record.end_time)
  /\ WithinCap(j.assigned_minutes, DurationMinutes(slot_record), max_minutes)

\* match_score in tenths.  The load term compares tw.assigned_minutes, which
\* is NULL without a workload row, so that case takes the ELSE branch.
MatchScore(db, j, slot_record, p_date, max_minutes) ==
  (IF slot_record.subject_code # NULL /\ slot_record.subject_code \in j.t.subjects
   THEN 5 ELSE 0)
  + (IF ~j.tw_null /\ j.assigned_minutes * 10 < max_minutes * 5 THEN 3
     ELSE IF ~j.tw_null /\ j.assigned_minutes * 10 < max_minutes * 8 THEN 2
     ELSE 1)
  + (IF is_teacher_available(db, j.t.id, p_date,
                             slot_record.start_time, slot_record.end_time)
     THEN 2 ELSE 0)

\* ORDER BY match_score DESC, tw.assigned_minutes ASC NULLS FIRST, t.id
SqlOrderCompare(a, b) ==
  IF a.match_score # b.match_score THEN b.match_score - a.match_score
  ELSE IF a.tw_null # b.tw_null THEN (IF a.tw_null THEN -1 ELSE 1)
  ELSE IF a.assigned_minutes # b.assigned_minutes
       THEN a.assigned_minutes - b.assigned_minutes
  ELSE IndexIn(TeacherIdOrder, a.teacher_id) - IndexIn(TeacherIdOrder, b.teacher_id)

\* the rows of the set S as an array, by teacher id
RowsById(S) ==
  LET Has(id) == \E r \in S : r.teacher_id = id
      ids == SelectSeq(TeacherIdOrder, Has)
  IN  [k \in 1..Len(ids) |-> CHOOSE r \in S : r.teacher_id = ids[k]]

find_eligible_substitutes(db, p_time_slot_id, p_date, p_limit) ==
  LET slot_record == CHOOSE ts \in db.time_slots : ts.id = p_time_slot_id
      max_minutes ==
        get_setting(db, "teacher_max_weekly_minutes", DefaultMaxWeeklyMinutes)
      selected ==
        {[teacher_id |-> j.t.id,
          employee_code |-> j.t.employee_code,
          match_score |-> MatchScore(db, j, slot_record, p_date, max_minutes),
          available_minutes |-> max_minutes - j.assigned_minutes,
          tw_null |-> j.tw_null,
          assigned_minutes |-> j.assigned_minutes] :
           j \in {x \in JoinWorkload(db, p_date) :
                    EligibleWhere(db, x, slot_record, p_date, max_minutes)}}
      rows == RowsById(selected)
      n == Len(rows)
      cmp == [i \in 1..n |-> [k \in 1..n |-> SqlOrderCompare(rows[i], rows[k])]]
      order == StableSortOrder(n, cmp)
      returned == IF p_limit < n THEN p_limit ELSE n
  IN  [k \in 1..returned |->
         [teacher_id |-> rows[order[k]].teacher_id,
          employee_code |-> rows[order[k]].employee_code,
          match_score |-> rows[order[k]].match_score,
          available_minutes |-> rows[order[k]].available_minutes]]

\* supabase.rpc('find_eligible_substitutes', ...) and deterministicTieBreaker
\* on what it returned, as the absence workflow does for one slot
FindCandidates(p_time_slot_id, p_date, p_limit) ==
  /\ \E ts \in time_slots : ts.id = p_time_slot_id
  /\ \E found \in {find_eligible_substitutes(Db, p_time_slot_id, p_date, p_limit)} :
       /\ candidates' = deterministicTieBreaker(found)
       /\ sortedCandidates' = deterministicTieBreaker(found)
  /\ rpcArgs' = [p_time_slot_id |-> p_time_slot_id, p_date |-> p_date,
                 p_limit |-> p_limit]
  /\ lastOp' = "find_candidates"
  /\ UNCHANGED <<dbVars, sessions, lastStatement, absenceCalls, detectVars, callVars,
                 reallocVars>>

----------------------------------------------------------------------------
(* Specification SpecElig: the candidates of one slot on arbitrary data     *)

\* most rows a caller asks for (p_limit)
MaxLimit == 2

\* assigned minutes of the workload rows
EligMinutes == {0, 600, 980, 1000}

\* 09:00-10:20 and 09:00-10:40
EligIntervals == {<<(<<9, 0>>), (<<10, 20>>)>>, <<(<<9, 0>>), (<<10, 40>>)>>}

\* whole day, 10:00-11:00, 11:00-12:00, from 09:00 without an end
EligWindows == {<<NoTime, NoTime>>, <<(<<10, 0>>), (<<11, 0>>)>>,
                <<(<<11, 0>>), (<<12, 0>>)>>, <<(<<9, 0>>), NoTime>>}

AvailabilityRow(teacher, date, window) ==
  [teacher_id |-> teacher, date |-> date, start_time |-> window[1],
   end_time |-> window[2], type |-> "unavailable"]

\* the date of the query: the Monday of the current week
EligDate == get_week_start(MidWeek)

\* The workload rows stand for the teachers' slots of the week; the query
\* reads none of them, so they are not listed in time_slots.
InitElig ==
  /\ timetables = {[id |-> "tt1", is_active |-> TRUE, deleted |-> FALSE]}
  /\ \E interval \in EligIntervals :
       time_slots = {TaughtSlot("s1", "tt1", "Monday", interval, NULL, "MATH",
                                "scheduled")}
  /\ conflicts = {}
  /\ time_slots_audit = {}
  /\ \E s1 \in {{}, {"MATH"}}, s2 \in {{}, {"MATH"}}, st3 \in {"active", "on_leave"} :
       teachers = {TeacherRow("t1", <<2>>, s1, DefaultMaxWeeklyHours, "active"),
                   TeacherRow("t2", <<1>>, s2, DefaultMaxWeeklyHours, "active"),
                   TeacherRow("t3", <<1, 2>>, {}, DefaultMaxWeeklyHours, st3)}
  /\ \E withRow \in SUBSET TeacherIds : \E minutes \in [withRow -> EligMinutes] :
       teacher_workload =
         {[teacher_id |-> t, week_start |-> EligDate,
           assigned_minutes |-> minutes[t]] : t \in withRow}
  /\ \/ teacher_availability = <<>>
     \/ \E t \in TeacherIds, window \in EligWindows :
          teacher_availability = <<AvailabilityRow(t, EligDate, window)>>
     \/ \E t \in TeacherIds :
          teacher_availability =
            <<[AvailabilityRow(t, EligDate, <<NoTime, NoTime>>)
                 EXCEPT !.type = "available"]>>
     \/ \E t \in TeacherIds :
          teacher_availability =
            <<AvailabilityRow(t, EligDate + 1, <<NoTime, NoTime>>)>>
  /\ substitution_requests = <<>>
  /\ system_settings = DefaultSettings
  /\ current_date = MidWeek
  /\ TxIdle
  /\ RankIdle
  /\ DetectIdle
  /\ CallIdle
  /\ ReallocIdle
  /\ lastOp = "init"

NextElig == \E limit \in 1..MaxLimit : FindCandidates("s1", EligDate, limit)

SpecElig == InitElig /\ [][NextElig]_vars

----------------------------------------------------------------------------
(* detect-absences: the absence workflow, and applying a substitution       *)

\* new Date(date).toLocaleDateString('en-US', { weekday: 'long' })
WeekdayName(date) ==
  <<"Monday", "Tuesday", "Wednesday", "Thursday", "Friday", "Saturday",
    "Sunday">>[(date % 7) + 1]

\* subjects(code, weight): the default subjects the migration inserts
SubjectWeights == [MATH |-> 5, HIST |-> 3, ART |-> 2]

\* slot.subject?.weight || 1
SubjectWeightOf(subject_code) ==
  IF subject_code \in DOMAIN SubjectWeights THEN SubjectWeights[subject_code]
  ELSE 1

\* the rules with the thresholds 50 and 75 included
calculatePriorityInclusive(ctx) ==
  IF ctx.progress_percent <= 50 /\ ctx.subject_weight >= 4 THEN "critical"
  ELSE IF ctx.progress_percent <= 75 /\ ctx.subject_weight >= 3 THEN "high"
  ELSE IF ctx.progress_percent <= 75 THEN "medium"
  ELSE "normal"

calculatePriority(ctx) ==
  IF ctx.progress_percent < 50 /\ ctx.subject_weight >= 4 THEN "critical"
  ELSE IF ctx.progress_percent < 75 /\ ctx.subject_weight >= 3 THEN "high"
  ELSE IF ctx.progress_percent < 75 THEN "medium"
  ELSE "normal"

\* a workflow that reports the class as less than half done
AbsenceProgressPercentLow == 50 - 10

\* progress_percent: 50
AbsenceProgressPercent == 50

\* p_limit: 5
AbsenceLimit == 5

\* gen_random_uuid() of the n-th row of substitution_requests
RequestId(n) == "r" \o ToString(n)

\* all arrays that list the rows of the set S (a select without ORDER BY)
ArraysOf(S) ==
  {arr \in [1..Cardinality(S) -> S] :
     \A i, j \in 1..Cardinality(S) : i # j => arr[i] # arr[j]}

\* the pass with every request marked suggested, with or without candidate
AbsenceStepAlwaysSuggested(db, tid, date, slot) ==
  LET sorted == deterministicTieBreaker(
                  find_eligible_substitutes(db, slot.id, date, AbsenceLimit))
      hasTop == Len(sorted) > 0
      context == [progress_percent |-> AbsenceProgressPercent,
                  subject_weight |-> SubjectWeightOf(slot.subject_code)]
      priority == calculatePriority(context)
      id == RequestId(Len(db.substitution_requests) + 1)
      request ==
        [id |-> id, timetable_id |-> slot.timetable_id, time_slot_id |-> slot.id,
         original_teacher_id |-> tid,
         suggested_teacher_id |-> IF hasTop THEN sorted[1].teacher_id ELSE NULL,
         status |-> "suggested",
         priority |-> IF hasTop THEN priority ELSE NULL]
      inserted == [db EXCEPT !.substitution_requests = Append(@, request)]
      current == CHOOSE r \in inserted.time_slots : r.id = slot.id
  IN  UpdateSlotDb(inserted, current,
                   [current EXCEPT !.status = "cancelled",
                                   !.substitution_request_id = id])

\* one pass of the loop over affectedSlots: candidates, request, cancellation
AbsenceStep(db, tid, date, slot) ==
  LET sorted == deterministicTieBreaker(
                  find_eligible_substitutes(db, slot.id, date, AbsenceLimit))
      hasTop == Len(sorted) > 0
      context == [progress_percent |-> AbsenceProgressPercent,
                  subject_weight |-> SubjectWeightOf(slot.subject_code)]
      priority == calculatePriority(context)
      id == RequestId(Len(db.substitution_requests) + 1)
      request ==
        [id |-> id, timetable_id |-> slot.timetable_id, time_slot_id |-> slot.id,
         original_teacher_id |-> tid,
         suggested_teacher_id |-> IF hasTop THEN sorted[1].teacher_id ELSE NULL,
         status |-> IF hasTop THEN "suggested" ELSE "open",
         priority |-> IF hasTop THEN priority ELSE NULL]
      inserted == [db EXCEPT !.substitution_requests = Append(@, request)]
      current == CHOOSE r \in inserted.time_slots : r.id = slot.id
  IN  UpdateSlotDb(inserted, current,
                   [current EXCEPT !.status = "cancelled",
                                   !.substitution_request_id = id])

RECURSIVE AbsenceLoop(_, _, _, _)
AbsenceLoop(db, tid, date, affectedSlots) ==
  IF affectedSlots = <<>> THEN db
  ELSE AbsenceLoop(AbsenceStep(db, tid, date, Head(affectedSlots)),
                   tid, date, Tail(affectedSlots))

\* the slots the absence affects: the teacher's scheduled slots of that
\* weekday, inside the window when both of its ends are given
AffectedSlots(db, tid, date, startTime, endTime) ==
  {r \in db.time_slots :
     /\ r.teacher_id = tid
     /\ r.day_of_week = WeekdayName(date)
     /\ r.status = "scheduled"
     /\ (startTime # NoTime /\ endTime # NoTime) =>
          /\ ~TimeLess(r.start_time, startTime)
          /\ ~TimeLess(endTime, r.end_time)}

\* summary of the response: requests, requests with a suggestion, and the
\* suggestions of priority critical
AbsenceSummary(substitutionRequests, quickSuggestions) ==
  [total_requests |-> Cardinality(substitutionRequests),
   with_suggestions |-> Cardinality(quickSuggestions),
   critical |-> Cardinality({q \in quickSuggestions : q.priority = "critical"})]

\* most rows of teacher_availability
MaxAbsences == 2

\* POST detect-absences by an admin or by the teacher
ReportAbsence(tid, date, startTime, endTime) ==
  /\ Len(teacher_availability) < MaxAbsences
  /\ \E t \in teachers : t.id = tid
  /\ \E recorded \in {[Db EXCEPT !.teacher_availability =
                        Append(@, [teacher_id |-> tid, date |-> date,
                                   start_time |-> startTime, end_time |-> endTime,
                                   type |-> "unavailable"])]} :
       \E affectedSlots \in ArraysOf(AffectedSlots(recorded, tid, date,
                                                  startTime, endTime)) :
         StoreDb(AbsenceLoop(recorded, tid, date, affectedSlots))
  /\ lastOp' = "report_absence"
  /\ UNCHANGED <<txVars, rankVars, callVars, reallocVars, detectVars>>

\* Admin Guide, Apply Substitution: the slot takes the suggested teacher and
\* the request is marked applied, in one transaction
ApplySubstitution(k) ==
  /\ k \in 1..Len(substitution_requests)
  /\ substitution_requests[k].status = "suggested"
  /\ \E slot \in time_slots :
       /\ slot.id = substitution_requests[k].time_slot_id
       /\ \E updated \in {UpdateSlotDb(Db, slot,
              [slot EXCEPT
                 !.teacher_id = substitution_requests[k].suggested_teacher_id,
                 !.original_teacher_id = substitution_requests[k].original_teacher_id,
                 !.status = "substituted"])} :
            StoreDb([updated EXCEPT !.substitution_requests[k].status = "applied"])
  /\ lastOp' = "apply_substitution"
  /\ UNCHANGED <<txVars, rankVars, callVars, reallocVars, detectVars>>

----------------------------------------------------------------------------
(* Specification SpecSub: absences and substitutions in one week            *)

\* most slots of the timetable
MaxSubSlots == 3

\* max_weekly_hours of each teacher; the setting is the same in minutes
SubMaxWeeklyHours == 2

\* (day, 09:00-10:00 or 10:00-11:00)
SubPositions ==
  {<<"Monday", <<(<<9, 0>>), (<<10, 0>>)>> >>,
   <<"Monday", <<(<<10, 0>>), (<<11, 0>>)>> >>,
   <<"Tuesday", <<(<<9, 0>>), (<<10, 0>>)>> >>}

\* the Monday and the Tuesday of the current week
SubDates == {0, 1}

\* the whole day, 09:00-10:00, or 09:30-10:30
SubWindows ==
  {<<NoTime, NoTime>>, <<(<<9, 0>>), (<<10, 0>>)>>, <<(<<9, 30>>), (<<10, 30>>)>>}

\* the view v_teacher_workload_status calls a row overloaded when its
\* assigned minutes exceed max_weekly_hours * 60
NoOverload(slots, tts, teacherRows, workload) ==
  \A t \in teacherRows :
    /\ TotalMinutes(slots, tts, t.id) <= t.max_weekly_hours * 60
    /\ \A w \in workload :
         w.teacher_id = t.id => w.assigned_minutes <= t.max_weekly_hours * 60

InitSub ==
  /\ timetables = {[id |-> "tt1", is_active |-> TRUE, deleted |-> FALSE]}
  /\ teachers =
       {TeacherRow("t1", <<2>>, {"MATH"}, SubMaxWeeklyHours, "active"),
        TeacherRow("t2", <<1>>, {"MATH"}, SubMaxWeeklyHours, "active"),
        TeacherRow("t3", <<1, 2>>, {}, SubMaxWeeklyHours, "active")}
  /\ \E n \in 0..MaxSubSlots :
       \E teacher \in [1..n -> TeacherIds], position \in [1..n -> SubPositions] :
         /\ \A i, j \in 1..n :
              (i # j /\ teacher[i] = teacher[j]) => position[i] # position[j]
         /\ time_slots =
              {TaughtSlot(SlotIdOrder[i], "tt1", position[i][1], position[i][2],
                          teacher[i], "MATH", "scheduled") : i \in 1..n}
  /\ conflicts = {}
  /\ time_slots_audit = {}
  /\ current_date = 0
  /\ teacher_workload =
       FreshWorkload(time_slots, timetables, {r.teacher_id : r \in time_slots},
                     get_week_start(current_date))
  /\ NoOverload(time_slots, timetables, teachers, teacher_workload)
  /\ teacher_availability = <<>>
  /\ substitution_requests = <<>>
  /\ system_settings =
       {[key |-> "teacher_max_weekly_minutes", value |-> SubMaxWeeklyHours * 60]}
  /\ TxIdle
  /\ RankIdle
  /\ DetectIdle
  /\ CallIdle
  /\ ReallocIdle
  /\ lastOp = "init"

NextSub ==
  \/ \E tid \in TeacherIds, date \in SubDates, window \in SubWindows :
       ReportAbsence(tid, date, window[1], window[2])
  \/ \E k \in 1..Len(substitution_requests) : ApplySubstitution(k)

SpecSub == InitSub /\ [][NextSub]_vars

----------------------------------------------------------------------------
(* Specification SpecAbsence: absence reports on slots of several subjects, *)
(* with windows that have both ends, one end or none                        *)

\* most slots of the timetable
MaxAbsenceSlots == 2

\* Monday 09:00-10:00 and Monday 10:00-11:00
AbsencePositions ==
  {<<"Monday", <<(<<9, 0>>), (<<10, 0>>)>> >>,
   <<"Monday", <<(<<10, 0>>), (<<11, 0>>)>> >>}

\* weights 5, 3 and 2, and a code without subjects row (weight 1)
AbsenceSubjects == {"MATH", "HIST", "ART", "PE"}

\* the teachers that hold slots
AbsenceTeachers == {"t1", "t2"}

\* whole day, 09:00-10:00, startTime only, endTime only
AbsenceWindows ==
  {<<NoTime, NoTime>>, <<(<<9, 0>>), (<<10, 0>>)>>,
   <<(<<9, 0>>), NoTime>>, <<NoTime, (<<10, 0>>)>>}

InitAbsence ==
  /\ timetables = {[id |-> "tt1", is_active |-> TRUE, deleted |-> FALSE]}
  /\ teachers =
       {TeacherRow("t1", <<2>>, {"MATH"}, SubMaxWeeklyHours, "active"),
        TeacherRow("t2", <<1>>, {"MATH"}, SubMaxWeeklyHours, "active"),
        TeacherRow("t3", <<1, 2>>, {}, SubMaxWeeklyHours, "active")}
  /\ \E n \in 0..MaxAbsenceSlots :
       \E teacher \in [1..n -> AbsenceTeachers],
          position \in [1..n -> AbsencePositions],
          subject \in [1..n -> AbsenceSubjects] :
         /\ \A i, j \in 1..n :
              (i # j /\ teacher[i] = teacher[j]) => position[i] # position[j]
         /\ time_slots =
              {TaughtSlot(SlotIdOrder[i], "tt1", position[i][1], position[i][2],
                          teacher[i], subject[i], "scheduled") : i \in 1..n}
  /\ conflicts = {}
  /\ time_slots_audit = {}
  /\ current_date = 0
  /\ teacher_workload =
       FreshWorkload(time_slots, timetables, {r.teacher_id : r \in time_slots},
                     get_week_start(current_date))
  /\ NoOverload(time_slots, timetables, teachers, teacher_workload)
  /\ teacher_availability = <<>>
  /\ substitution_requests = <<>>
  /\ system_settings =
       {[key |-> "teacher_max_weekly_minutes", value |-> SubMaxWeeklyHours * 60]}
  /\ TxIdle
  /\ RankIdle
  /\ DetectIdle
  /\ CallIdle
  /\ ReallocIdle
  /\ lastOp = "init"

NextAbsence ==
  \/ \E tid \in TeacherIds, window \in AbsenceWindows :
       ReportAbsence(tid, 0, window[1], window[2])
  \/ \E k \in 1..Len(substitution_requests) : ApplySubstitution(k)

SpecAbsence == InitAbsence /\ [][NextAbsence]_vars

----------------------------------------------------------------------------
(* detect-absences as the requests it sends, one statement at a time, so    *)
(* that two calls can interleave                                            *)

\* a call that has not started
IdleCall ==
  [pc |-> "idle", tid |-> NULL, date |-> 0, startTime |-> NoTime,
   endTime |-> NoTime, affectedSlots |-> <<>>, at |-> 0,
   topCandidate |-> NULL, priority |-> NULL, subRequest |-> NULL]

\* the statements that leave the other tables and variables alone
CallFrame ==
  UNCHANGED <<timetables, conflicts, teachers, system_settings, current_date,
              sessions, lastStatement, rpcArgs, rankVars, detectVars, callVars,
              reallocVars>>

\* insert into teacher_availability
ReportRecord(c, tid, date, startTime, endTime) ==
  /\ absenceCalls[c].pc = "idle"
  /\ \E t \in teachers : t.id = tid
  /\ teacher_availability' =
       Append(teacher_availability,
              [teacher_id |-> tid, date |-> date, start_time |-> startTime,
               end_time |-> endTime, type |-> "unavailable"])
  /\ absenceCalls' = [absenceCalls EXCEPT
       ![c] = [IdleCall EXCEPT !.pc = "recorded", !.tid = tid, !.date = date,
                               !.startTime = startTime, !.endTime = endTime]]
  /\ lastOp' = "report_record"
  /\ UNCHANGED <<time_slots, time_slots_audit, teacher_workload,
                 substitution_requests>>
  /\ CallFrame

\* the affected slots query; without rows the call returns
ReportQuery(c) ==
  /\ absenceCalls[c].pc = "recorded"
  /\ \E affectedSlots \in
        ArraysOf(AffectedSlots(Db, absenceCalls[c].tid, absenceCalls[c].date,
                               absenceCalls[c].startTime, absenceCalls[c].endTime)) :
       absenceCalls' = [absenceCalls EXCEPT
         ![c].affectedSlots = affectedSlots,
         ![c].at = 1,
         ![c].pc = IF Len(affectedSlots) = 0 THEN "done" ELSE "rank"]
  /\ lastOp' = "report_query"
  /\ UNCHANGED <<time_slots, time_slots_audit, teacher_workload,
                 teacher_availability, substitution_requests>>
  /\ CallFrame

\* rpc find_eligible_substitutes, deterministicTieBreaker, calculatePriority
ReportRank(c) ==
  /\ absenceCalls[c].pc = "rank"
  /\ \E slot \in {absenceCalls[c].affectedSlots[absenceCalls[c].at]} :
     \E sorted \in {deterministicTieBreaker(
                      find_eligible_substitutes(Db, slot.id, absenceCalls[c].date,
                                                AbsenceLimit))} :
       absenceCalls' = [absenceCalls EXCEPT
         ![c].topCandidate = IF Len(sorted) > 0 THEN sorted[1].teacher_id ELSE NULL,
         ![c].priority =
           IF Len(sorted) > 0
           THEN calculatePriority(
                  [progress_percent |-> AbsenceProgressPercent,
                   subject_weight |-> SubjectWeightOf(slot.subject_code)])
           ELSE NULL,
         ![c].pc = "insert"]
  /\ lastOp' = "report_rank"
  /\ UNCHANGED <<time_slots, time_slots_audit, teacher_workload,
                 teacher_availability, substitution_requests>>
  /\ CallFrame

\* insert into substitution_requests
ReportInsert(c) ==
  /\ absenceCalls[c].pc = "insert"
  /\ \E slot \in {absenceCalls[c].affectedSlots[absenceCalls[c].at]} :
     \E id \in {RequestId(Len(substitution_requests) + 1)} :
       /\ substitution_requests' =
            Append(substitution_requests,
                   [id |-> id, timetable_id |-> slot.timetable_id,
                    time_slot_id |-> slot.id,
                    original_teacher_id |-> absenceCalls[c].tid,
                    suggested_teacher_id |-> absenceCalls[c].topCandidate,
                    status |-> IF absenceCalls[c].topCandidate # NULL
                               THEN "suggested" ELSE "open",
                    priority |-> absenceCalls[c].priority])
       /\ absenceCalls' = [absenceCalls EXCEPT ![c].subRequest = id,
                                               ![c].pc = "cancel"]
  /\ lastOp' = "report_insert"
  /\ UNCHANGED <<time_slots, time_slots_audit, teacher_workload,
                 teacher_availability>>
  /\ CallFrame

\* update time_slots set status = 'cancelled', substitution_request_id = ...
\* where id = slot.id; then the next slot, or the response
ReportCancel(c) ==
  /\ absenceCalls[c].pc = "cancel"
  /\ \E current \in {r \in time_slots :
                       r.id = absenceCalls[c].affectedSlots[absenceCalls[c].at].id} :
       StoreDb(UpdateSlotDb(Db, current,
                 [current EXCEPT !.status = "cancelled",
                                 !.substitution_request_id = absenceCalls[c].subRequest]))
  /\ absenceCalls' = [absenceCalls EXCEPT
       ![c].at = @ + 1,
       ![c].pc = IF absenceCalls[c].at = Len(absenceCalls[c].affectedSlots)
                 THEN "done" ELSE "rank"]
  /\ lastOp' = "report_cancel"
  /\ UNCHANGED <<sessions, lastStatement, rpcArgs, rankVars, detectVars, callVars,
                 reallocVars>>

----------------------------------------------------------------------------
(* Specification SpecReports: two absence reports of one teacher and date   *)

\* the calls that run side by side or one after the other
MaxCalls == 2

\* most slots of the timetable
MaxReportSlots == 2

\* the teacher that reports, and the Monday reported
ReportTeacher == "t1"

ReportDate == get_week_start(0)

\* the whole day, or 09:00-10:00
ReportWindows == {<<NoTime, NoTime>>, <<(<<9, 0>>), (<<10, 0>>)>>}

InitReports ==
  /\ timetables = {[id |-> "tt1", is_active |-> TRUE, deleted |-> FALSE]}
  /\ teachers =
       {TeacherRow("t1", <<2>>, {"MATH"}, SubMaxWeeklyHours, "active"),
        TeacherRow("t2", <<1>>, {"MATH"}, SubMaxWeeklyHours, "active"),
        TeacherRow("t3", <<1, 2>>, {}, SubMaxWeeklyHours, "active")}
  /\ \E n \in 0..MaxReportSlots :
       \E teacher \in [1..n -> AbsenceTeachers],
          position \in [1..n -> AbsencePositions] :
         /\ \A i, j \in 1..n :
              (i # j /\ teacher[i] = teacher[j]) => position[i] # position[j]
         /\ time_slots =
              {TaughtSlot(SlotIdOrder[i], "tt1", position[i][1], position[i][2],
                          teacher[i], "MATH", "scheduled") : i \in 1..n}
  /\ conflicts = {}
  /\ time_slots_audit = {}
  /\ current_date = 0
  /\ teacher_workload =
       FreshWorkload(time_slots, timetables, {r.teacher_id : r \in time_slots},
                     get_week_start(current_date))
  /\ teacher_availability = <<>>
  /\ substitution_requests = <<>>
  /\ system_settings =
       {[key |-> "teacher_max_weekly_minutes", value |-> SubMaxWeeklyHours * 60]}
  /\ sessions = <<>>
  /\ lastStatement = NoStatement
  /\ rpcArgs = NoArgs
  /\ absenceCalls = [c \in 1..MaxCalls |-> IdleCall]
  /\ RankIdle
  /\ DetectIdle
  /\ CallIdle
  /\ ReallocIdle
  /\ lastOp = "init"

NextReports ==
  \E c \in 1..MaxCalls :
    \/ \E window \in ReportWindows :
         ReportRecord(c, ReportTeacher, ReportDate, window[1], window[2])
    \/ ReportQuery(c)
    \/ ReportRank(c)
    \/ ReportInsert(c)
    \/ ReportCancel(c)

SpecReports == InitReports /\ [][NextReports]_vars

----------------------------------------------------------------------------
(* Specification SpecChecks: the local checks on arbitrary slot arrays      *)

\* longest array handed to the local checks
MaxCheckSlots == 3

\* Monday 09:00-10:00, 09:30-10:30, 10:00-11:00, 10:05-11:05, 10:15-11:15
\* and Tuesday 09:00-10:00
CheckPositions ==
  {<<"Monday", <<(<<9, 0>>), (<<10, 0>>)>> >>,
   <<"Monday", <<(<<9, 30>>), (<<10, 30>>)>> >>,
   <<"Monday", <<(<<10, 0>>), (<<11, 0>>)>> >>,
   <<"Monday", <<(<<10, 5>>), (<<11, 5>>)>> >>,
   <<"Monday", <<(<<10, 15>>), (<<11, 15>>)>> >>,
   <<"Tuesday", <<(<<9, 0>>), (<<10, 0>>)>> >>}

\* (location, instructor): missing ones, and rooms and instructors that
\* agree in the one and differ in the other
CheckPlaces ==
  {<<NULL, "">>, <<"Room101", "Dr.Smith">>, <<"Room102", "Dr.Jones">>,
   <<"Room101", "Dr.Jones">>}

\* the time_slots array of a request body: the i-th slot has the i-th id
InitChecks ==
  /\ \E n \in 0..MaxCheckSlots :
       \E position \in [1..n -> CheckPositions], place \in [1..n -> CheckPlaces] :
         timeSlots = [i \in 1..n |->
                        SlotRow(SlotIdOrder[i], "tt1", position[i][1],
                                position[i][2], place[i][1], place[i][2])]
  /\ localChecks = NoChecks
  /\ detectResponse = NoResponse
  /\ DbEmpty
  /\ TxIdle
  /\ RankIdle
  /\ CallIdle
  /\ ReallocIdle
  /\ lastOp = "init"

\* the four local pre-checks of the handler on the array
RunLocalChecks ==
  /\ lastOp = "init"
  /\ localChecks' = LocalChecks(timeSlots)
  /\ lastOp' = "local_checks"
  /\ UNCHANGED <<dbVars, txVars, rankVars, callVars, reallocVars, timeSlots, detectResponse>>

NextChecks == RunLocalChecks

SpecChecks == InitChecks /\ [][NextChecks]_vars

----------------------------------------------------------------------------
(* Specification SpecPriority: calculatePriority on every context           *)

\* progress_percent ranges over 0..MaxProgress
MaxProgress == 100

\* subject_weight ranges over 0..MaxWeight (the seeded subjects have 2..5)
MaxWeight == 6

InitPriority ==
  /\ priorityContext \in [progress_percent : 0..MaxProgress, subject_weight : 0..MaxWeight]
  /\ priorityResult = "NONE"
  /\ recomputeResult = <<>>
  /\ overlapResult = NoOverlapResult
  /\ enforceResponse = NoEnforcement
  /\ DbEmpty
  /\ TxIdle
  /\ RankIdle
  /\ DetectIdle
  /\ ReallocIdle
  /\ lastOp = "init"

\* one call of calculatePriority
ClassifyPriority ==
  /\ lastOp = "init"
  /\ priorityResult' = calculatePriority(priorityContext)
  /\ lastOp' = "calculate_priority"
  /\ UNCHANGED <<dbVars, txVars, rankVars, detectVars, reallocVars,
                 priorityContext, recomputeResult, overlapResult, enforceResponse>>

NextPriority == ClassifyPriority

SpecPriority == InitPriority /\ [][NextPriority]_vars

----------------------------------------------------------------------------
(* Specification SpecRecompute: direct calls of recompute_teacher_workload  *)

\* SELECT recompute_teacher_workload(p_teacher_id, p_week_start)
Recompute(p_teacher_id, p_week_start) ==
  /\ \E after \in {recompute_teacher_workload(Db, p_teacher_id, p_week_start)} :
       /\ teacher_workload' = after.teacher_workload
       /\ recomputeResult' =
            <<[p_teacher_id |-> p_teacher_id, p_week_start |-> p_week_start,
               total_minutes |->
                 TotalMinutes(time_slots, timetables, p_teacher_id)]>>
  /\ lastOp' = "recompute"
  /\ UNCHANGED <<timetables, time_slots, time_slots_audit, conflicts, teachers,
                 teacher_availability, substitution_requests, system_settings,
                 current_date, txVars, rankVars, detectVars, reallocVars,
                 priorityContext, priorityResult, overlapResult, enforceResponse>>

\* most slots of the timetable
MaxRecomputeSlots == 2

\* the status values the CHECK of time_slots.status admits
SlotStatuses == {"scheduled", "cancelled", "substituted", "completed"}

RecomputeTeachers == {"t1", "t2"}

\* Monday 09:00-10:00 and Tuesday 09:00-10:30
RecomputePositions ==
  {<<"Monday", <<(<<9, 0>>), (<<10, 0>>)>> >>,
   <<"Tuesday", <<(<<9, 0>>), (<<10, 30>>)>> >>}

\* this Monday and the next
RecomputeWeeks == {0, 7}

\* no row, or a row of t1 for this week that is out of date
InitRecompute ==
  /\ timetables = {[id |-> "tt1", is_active |-> TRUE, deleted |-> FALSE]}
  /\ \E n \in 0..MaxRecomputeSlots :
       \E teacher \in [1..n -> RecomputeTeachers],
          position \in [1..n -> RecomputePositions],
          status \in [1..n -> SlotStatuses] :
         time_slots =
           {TaughtSlot(SlotIdOrder[i], "tt1", position[i][1], position[i][2],
                       teacher[i], "MATH", status[i]) : i \in 1..n}
  /\ conflicts = {}
  /\ time_slots_audit = {}
  /\ teachers =
       {TeacherRow(t, <<1>>, {"MATH"}, DefaultMaxWeeklyHours, "active") :
          t \in RecomputeTeachers}
  /\ teacher_workload \in
       {{}, {[teacher_id |-> "t1", week_start |-> 0, assigned_minutes |-> 45]}}
  /\ teacher_availability = <<>>
  /\ substitution_requests = <<>>
  /\ system_settings = DefaultSettings
  /\ current_date = 0
  /\ TxIdle
  /\ RankIdle
  /\ DetectIdle
  /\ priorityContext = NoContext
  /\ priorityResult = "NONE"
  /\ recomputeResult = <<>>
  /\ overlapResult = NoOverlapResult
  /\ enforceResponse = NoEnforcement
  /\ ReallocIdle
  /\ lastOp = "init"

NextRecompute ==
  \E t \in RecomputeTeachers, week \in RecomputeWeeks : Recompute(t, week)

SpecRecompute == InitRecompute /\ [][NextRecompute]_vars

----------------------------------------------------------------------------
(* Specification SpecSlots: statements with valid and invalid rows          *)

\* ids of the rows of time_slots
MaxSlotRows == 2

\* a weekday, the last allowed day and the day that is not allowed
SlotDays == {"Monday", "Saturday", "Sunday"}

\* 08:30-09:30, 09:00-10:00, 16:00-17:00, 16:30-17:30, 10:00-10:00 and
\* 11:00-10:00
SlotIntervals ==
  {<<(<<8, 30>>), (<<9, 30>>)>>, <<(<<9, 0>>), (<<10, 0>>)>>,
   <<(<<16, 0>>), (<<17, 0>>)>>, <<(<<16, 30>>), (<<17, 30>>)>>,
   <<(<<10, 0>>), (<<10, 0>>)>>, <<(<<11, 0>>), (<<10, 0>>)>>}

\* the rows a client writes
SlotRows ==
  {TaughtSlot(SlotIdOrder[i], "tt1", day, interval, "t1", "MATH", "scheduled") :
     i \in 1..MaxSlotRows, day \in SlotDays, interval \in SlotIntervals}

InitSlots ==
  /\ timetables = {[id |-> "tt1", is_active |-> TRUE, deleted |-> FALSE]}
  /\ time_slots = {}
  /\ time_slots_audit = {}
  /\ conflicts = {}
  /\ teachers = {TeacherRow("t1", <<1>>, {"MATH"}, DefaultMaxWeeklyHours, "active")}
  /\ teacher_workload = {}
  /\ teacher_availability = <<>>
  /\ substitution_requests = <<>>
  /\ system_settings = DefaultSettings
  /\ current_date = 0
  /\ TxIdle
  /\ RankIdle
  /\ DetectIdle
  /\ CallIdle
  /\ ReallocIdle
  /\ lastOp = "init"

NextSlots ==
  \/ \E row \in SlotRows : InsertSlot(row)
  \/ \E row \in SlotRows : InsertSlotRejected(row)
  \/ \E old \in time_slots : \E new \in SlotRows : UpdateSlot(old, new)
  \/ \E old \in time_slots : \E new \in SlotRows : UpdateSlotRejected(old, new)
  \/ \E old \in time_slots : DeleteSlot(old)

SpecSlots == InitSlots /\ [][NextSlots]_vars

----------------------------------------------------------------------------
(* reallocate-classes/index.ts                                              *)

\* the rows of v_substitution_request_details: the requests in status open
\* or suggested, joined with their slot
v_substitution_request_details(db) ==
  LET Shown(r) ==
        /\ r.status \in {"open", "suggested"}
        /\ \E ts \in db.time_slots : ts.id = r.time_slot_id
      rows == SelectSeq(db.substitution_requests, Shown)
  IN  [k \in 1..Len(rows) |->
         [id |-> rows[k].id, status |-> rows[k].status,
          slot_id |-> rows[k].time_slot_id]]

\* the filter as one would read it: status open or status suggested
OpenRequestsEither(rows) ==
  LET Kept(r) == r.status = "open" \/ r.status = "suggested"
  IN  SelectSeq(rows, Kept)

\* .eq('status', 'open').or(`status.eq.suggested`): the request carries the
\* parameters status=eq.open and or=(status.eq.suggested), and the parameters
\* of a request are joined by AND
OpenRequestsQuery(rows) ==
  LET Kept(r) == r.status = "open" /\ (r.status = "suggested")
  IN  SelectSeq(rows, Kept)

\* profiles with role admin or hod (getAdminUserIds)
AdminUserIds == {"admin"}

\* the outcomes of update(...).eq('time_slot_id', ...).select().single() on
\* the table: with one matching row the row is updated and returned; with
\* none nothing is; with several the request fails, and the rows are updated
\* or not according to whether the failed request is rolled back
UpdateBySlot(requests, suggestion) ==
  LET hit == {k \in 1..Len(requests) :
                requests[k].time_slot_id = suggestion.time_slot_id}
      written == [k \in 1..Len(requests) |->
                    IF k \in hit
                    THEN [requests[k] EXCEPT
                            !.suggested_teacher_id = suggestion.candidate_teacher_id,
                            !.status = "suggested"]
                    ELSE requests[k]]
  IN  IF hit = {} THEN {[requests |-> requests, updated |-> <<>>]}
      ELSE IF Cardinality(hit) = 1
      THEN {[requests |-> written,
             updated |-> <<written[CHOOSE k \in hit : TRUE]>>]}
      ELSE {[requests |-> written, updated |-> <<>>],
            [requests |-> requests, updated |-> <<>>]}

\* the loop over aiResult.substitution_suggestions: the states it can end
\* in, each with the table, the rows of ai_suggestions and updatedRequests
RECURSIVE ApplySuggestions(_, _, _)
ApplySuggestions(timetableId, suggestions, from) ==
  IF suggestions = <<>> THEN {from}
  ELSE UNION {
    ApplySuggestions(timetableId, Tail(suggestions),
      [requests |-> u.requests,
       ai_suggestions |->
         from.ai_suggestions \cup
           {[timetable_id |-> timetableId, suggestion_type |-> "substitution",
             substitution_request_id |-> u.updated[k].id,
             candidate_teacher_id |-> Head(suggestions).candidate_teacher_id] :
              k \in 1..Len(u.updated)},
       updatedRequests |-> from.updatedRequests \o u.updated]) :
    u \in UpdateBySlot(from.requests, Head(suggestions))}

\* notifySubstitutionSuggested for every updated request with a suggested
\* teacher whose slot is among openRequests
SuggestedNotifications(updatedRequests, openRequests) ==
  UNION {
    {[user_id |-> u, type |-> "substitution_suggested",
      substitution_request_id |-> updatedRequests[k].id] :
       u \in {updatedRequests[k].suggested_teacher_id} \cup AdminUserIds} :
    k \in {i \in 1..Len(updatedRequests) :
             /\ updatedRequests[i].suggested_teacher_id # NULL
             /\ \E j \in 1..Len(openRequests) :
                  openRequests[j].slot_id = updatedRequests[i].time_slot_id}}

\* the way a run takes through the early returns of the handler
ReallocationPath(role, openRequests, reply, dryRun) ==
  IF role \notin {"admin", "hod"} THEN "forbidden"
  ELSE IF Len(openRequests) = 0 THEN "none_found"
  ELSE IF ~reply.parsed THEN "parse_error"
  ELSE IF dryRun THEN "dry_run"
  ELSE "apply"

\* the insert into audit_logs placed where every authorised run passes it
AuditedPathsEvery == {"none_found", "parse_error", "dry_run", "apply"}

\* the paths that reach the insert into audit_logs: it follows the update
\* loop
AuditedPaths == {"apply"}

\* the response of a run that returns before the update loop
EarlyResponse(path, reply) ==
  IF path = "forbidden"
  THEN [status |-> 403, message |-> "Unauthorized - admin or HOD only",
        suggestions |-> <<>>]
  ELSE IF path = "none_found"
  THEN [status |-> 200, message |-> "No open substitution requests found",
        suggestions |-> <<>>]
  ELSE IF path = "parse_error"
  THEN [status |-> 500, message |-> "Failed to parse Groq response",
        suggestions |-> <<>>]
  ELSE [status |-> 200, message |-> "dry_run",
        suggestions |-> reply.substitution_suggestions]

\* POST reallocate-classes?timetableId=...&dryRun=...: role is the caller's
\* role, reply the content the Groq API answers with
ReallocateClasses(timetableId, dryRun, role, reply) ==
  /\ \E openRequests \in {OpenRequestsQuery(v_substitution_request_details(Db))} :
       \E path \in {ReallocationPath(role, openRequests, reply, dryRun)} :
         \E done \in
              IF path = "apply"
              THEN ApplySuggestions(timetableId, reply.substitution_suggestions,
                     [requests |-> substitution_requests,
                      ai_suggestions |-> ai_suggestions,
                      updatedRequests |-> <<>>])
              ELSE {[requests |-> substitution_requests,
                     ai_suggestions |-> ai_suggestions,
                     updatedRequests |-> <<>>]} :
           /\ substitution_requests' = done.requests
           /\ ai_suggestions' = done.ai_suggestions
           /\ notifications' =
                notifications \cup
                  SuggestedNotifications(done.updatedRequests, openRequests)
           /\ audit_logs' =
                IF path \in AuditedPaths
                THEN audit_logs \cup
                       {[action |-> "reallocation_suggested",
                         timetable_id |-> timetableId,
                         suggestions_count |-> Len(done.updatedRequests)]}
                ELSE audit_logs
           /\ reallocateResponse' =
                IF path = "apply"
                THEN [status |-> 200,
                      message |-> "Reallocation suggestions generated",
                      suggestions |->
                        [k \in 1..Len(done.updatedRequests) |->
                           [time_slot_id |-> done.updatedRequests[k].time_slot_id,
                            candidate_teacher_id |->
                              done.updatedRequests[k].suggested_teacher_id]]]
                ELSE EarlyResponse(path, reply)
  /\ lastOp' = IF dryRun THEN "reallocate_dry_run" ELSE "reallocate"
  /\ UNCHANGED <<timetables, time_slots, time_slots_audit, conflicts, teachers,
                 teacher_workload, teacher_availability, system_settings,
                 current_date, txVars, rankVars, detectVars, callVars>>

----------------------------------------------------------------------------
(* Specification SpecRealloc: reallocation runs over stored requests        *)

\* most rows of substitution_requests
MaxRequests == 2

\* most suggestions in one reply of the AI service
MaxSuggestions == 2

ReallocSlotIds == {"s1", "s2"}

\* status and suggested teacher of a stored request
ReallocRequestStates ==
  {<<"open", NULL>>} \cup
    ({"suggested", "applied", "rejected", "cancelled"} \X {"t2", "t3"})

\* what the Groq API may answer: content that does not parse or validate,
\* or a plan with suggestions for slots of the timetable
ReallocReplies ==
  {[parsed |-> FALSE, substitution_suggestions |-> <<>>]} \cup
    {[parsed |-> TRUE, substitution_suggestions |-> plan] :
       plan \in SeqsUpTo([time_slot_id : ReallocSlotIds,
                          candidate_teacher_id : {"t2", "t3"}], MaxSuggestions)}

InitRealloc ==
  /\ timetables = {[id |-> "tt1", is_active |-> TRUE, deleted |-> FALSE]}
  /\ time_slots =
       {TaughtSlot(id, "tt1", "Monday", <<(<<9, 0>>), (<<10, 0>>)>>, "t1", "MATH",
                   "cancelled") : id \in ReallocSlotIds}
  /\ time_slots_audit = {}
  /\ conflicts = {}
  /\ teachers =
       {TeacherRow(t, <<1>>, {"MATH"}, DefaultMaxWeeklyHours, "active") :
          t \in TeacherIds}
  /\ teacher_workload = {}
  /\ teacher_availability = <<>>
  /\ \E n \in 0..MaxRequests :
       \E slot \in [1..n -> ReallocSlotIds], st \in [1..n -> ReallocRequestStates] :
         substitution_requests =
           [k \in 1..n |->
              [id |-> RequestId(k), timetable_id |-> "tt1",
               time_slot_id |-> slot[k], original_teacher_id |-> "t1",
               suggested_teacher_id |-> st[k][2], status |-> st[k][1],
               priority |-> NULL]]
  /\ system_settings = DefaultSettings
  /\ current_date = 0
  /\ TxIdle
  /\ RankIdle
  /\ DetectIdle
  /\ CallIdle
  /\ ReallocIdle
  /\ lastOp = "init"

NextRealloc ==
  \E dryRun \in BOOLEAN, role \in {"admin", "teacher"}, reply \in ReallocReplies :
    ReallocateClasses("tt1", dryRun, role, reply)

SpecRealloc == InitRealloc /\ [][NextRealloc]_vars

----------------------------------------------------------------------------
(* enforce-workload: recompute every active teacher, report the overloaded  *)

\* Date.prototype.getDay(): 0 is Sunday; day number 0 is a Monday
getDay(today) == (today + 1) % 7

\* weekStart.setDate(weekStart.getDate() - weekStart.getDay() + 1), as a date
weekStartStr(today) == today - getDay(today) + 1

\* the view v_teacher_workload_status: the workload rows of active teachers;
\* of the status values only 'overloaded' is told apart
v_teacher_workload_status(db) ==
  {[teacher_id |-> tw.teacher_id, week_start |-> tw.week_start,
    assigned_minutes |-> tw.assigned_minutes,
    max_minutes |-> t.max_weekly_hours * 60,
    status |-> IF tw.assigned_minutes > t.max_weekly_hours * 60
               THEN "overloaded" ELSE "other"] :
     <<tw, t>> \in {x \in db.teacher_workload \X db.teachers :
                     x[1].teacher_id = x[2].id /\ x[2].status = "active"}}

\* the loop of rpc calls over the teachers selected
RECURSIVE RecomputeEach(_, _, _)
RecomputeEach(db, teacherIds, p_week_start) ==
  IF teacherIds = {} THEN db
  ELSE LET t == CHOOSE x \in teacherIds : TRUE
       IN  RecomputeEach(recompute_teacher_workload(db, t, p_week_start),
                         teacherIds \ {t}, p_week_start)

\* POST enforce-workload.  The classrooms table is empty, so
\* check_hod_allocation_compliance returns no row.
EnforceWorkload(role) ==
  /\ IF role # "admin"
     THEN /\ enforceResponse' = [NoEnforcement EXCEPT !.status = 403]
          /\ UNCHANGED <<dbVars, reallocVars>>
     ELSE \E week \in {weekStartStr(current_date)} :
          \E active \in {{t.id : t \in {x \in teachers : x.status = "active"}}} :
          \E after \in {RecomputeEach(Db, active, week)} :
          \E overloaded \in {{v \in v_teacher_workload_status(after) :
                                v.status = "overloaded" /\ v.week_start = week}} :
            /\ teacher_workload' = after.teacher_workload
            /\ notifications' = notifications \cup
                 {[user_id |-> a, type |-> "workload_violation",
                   teacher_id |-> v.teacher_id,
                   excess_minutes |-> v.assigned_minutes - v.max_minutes] :
                    a \in AdminUserIds, v \in overloaded}
            /\ audit_logs' = audit_logs \cup
                 {[action |-> "workload_enforcement_run", week_start |-> week,
                   overloaded_count |-> Cardinality(overloaded)]}
            /\ enforceResponse' =
                 [status |-> 200, week_start |-> week,
                  teachers_checked |-> Cardinality(active),
                  overloaded |-> {v.teacher_id : v \in overloaded}]
            /\ UNCHANGED <<timetables, time_slots, time_slots_audit, conflicts,
                           teachers, teacher_availability, substitution_requests,
                           system_settings, current_date, ai_suggestions,
                           reallocateResponse>>
  /\ lastOp' = "enforce_workload"
  /\ UNCHANGED <<txVars, rankVars, detectVars, priorityContext, priorityResult,
                 recomputeResult, overlapResult>>

----------------------------------------------------------------------------
(* Specification SpecEnforce: enforcement runs on each day of a week        *)

\* the last day number an enforcement run happens on (6 is the Sunday)
MaxEnforceDay == 6

\* max_weekly_hours of the teachers
EnforceMaxWeeklyHours == 1

\* the workload rows of the current week as the slot trigger keeps them
InitEnforce ==
  /\ timetables = {[id |-> "tt1", is_active |-> TRUE, deleted |-> FALSE]}
  /\ \E n \in 0..MaxRecomputeSlots :
       \E teacher \in [1..n -> RecomputeTeachers],
          position \in [1..n -> RecomputePositions] :
         time_slots =
           {TaughtSlot(SlotIdOrder[i], "tt1", position[i][1], position[i][2],
                       teacher[i], "MATH", "scheduled") : i \in 1..n}
  /\ conflicts = {}
  /\ time_slots_audit = {}
  /\ teachers =
       {TeacherRow(t, <<1>>, {"MATH"}, EnforceMaxWeeklyHours, "active") :
          t \in RecomputeTeachers}
  /\ current_date \in 0..MaxEnforceDay
  /\ teacher_workload =
       FreshWorkload(time_slots, timetables, {r.teacher_id : r \in time_slots},
                     get_week_start(current_date))
  /\ teacher_availability = <<>>
  /\ substitution_requests = <<>>
  /\ system_settings = DefaultSettings
  /\ TxIdle
  /\ RankIdle
  /\ DetectIdle
  /\ CallIdle
  /\ ReallocIdle
  /\ lastOp = "init"

NextEnforce == \E role \in {"admin", "teacher"} : EnforceWorkload(role)

SpecEnforce == InitEnforce /\ [][NextEnforce]_vars

----------------------------------------------------------------------------
(* Specification SpecOverlap: the overlap tests on two slots, both ways     *)

\* 09:00, 09:30, 10:00 and 10:30, as start and as end in every combination
OverlapTimes == {<<9, 0>>, <<9, 30>>, <<10, 0>>, <<10, 30>>}

OverlapDays == {"Monday", "Tuesday"}

InitOverlap ==
  /\ \E day \in [1..2 -> OverlapDays], start \in [1..2 -> OverlapTimes],
        end \in [1..2 -> OverlapTimes] :
       timeSlots = [i \in 1..2 |->
                      SlotRow(SlotIdOrder[i], "tt1", day[i], <<start[i], end[i]>>,
                              NULL, NULL)]
  /\ localChecks = NoChecks
  /\ detectResponse = NoResponse
  /\ DbEmpty
  /\ TxIdle
  /\ RankIdle
  /\ CallIdle
  /\ ReallocIdle
  /\ lastOp = "init"

\* checkTimeOverlap and quickOverlapCheck on the two slots and on the two
\* slots in the other order
TestOverlap ==
  /\ lastOp = "init"
  /\ overlapResult' =
       [forward |-> checkTimeOverlap(timeSlots[1].start_time, timeSlots[1].end_time,
                                     timeSlots[2].start_time, timeSlots[2].end_time),
        backward |-> checkTimeOverlap(timeSlots[2].start_time, timeSlots[2].end_time,
                                      timeSlots[1].start_time, timeSlots[1].end_time),
        pairs |-> quickOverlapCheck(timeSlots),
        reversedPairs |-> quickOverlapCheck(<<timeSlots[2], timeSlots[1]>>)]
  /\ lastOp' = "test_overlap"
  /\ UNCHANGED <<dbVars, txVars, rankVars, detectVars, reallocVars,
                 priorityContext, priorityResult, recomputeResult, enforceResponse>>

NextOverlap == TestOverlap

SpecOverlap == InitOverlap /\ [][NextOverlap]_vars

----------------------------------------------------------------------------
(* Claims                                                                   *)

SlotIdBefore(a, b) == IndexIn(SlotIdOrder, a) < IndexIn(SlotIdOrder, b)

DetectRan == lastOp \in {"detect_auth", "detect_demo"}

\* the pairs of slot ids the four local checks of the last run found
LocalPairIds ==
  LET Ids(ps) == {{ps[k][1].id, ps[k][2].id} : k \in 1..Len(ps)}
  IN  Ids(localChecks.overlaps) \cup Ids(localChecks.locationConflicts)
        \cup Ids(localChecks.instructorConflicts) \cup Ids(localChecks.travelIssues)

\* C5: after a detection run over a non-empty slot list, every pair the
\* local checks found is among the conflicts the run returned, whatever the
\* AI service answered.
C5_LocalConflictsReturned ==
  (DetectRan /\ Len(timeSlots) > 0) =>
    \A pair \in LocalPairIds :
      \E k \in 1..Len(detectResponse.conflicts) :
        {detectResponse.conflicts[k].slot1_id, detectResponse.conflicts[k].slot2_id}
          = pair

\* C6: after an authenticated detection run, the conflicts stored for the
\* timetable are exactly the conflicts of that run (none when it produced
\* none).
C6_StoredConflictsReplaced ==
  lastOp = "detect_auth" =>
    {c \in conflicts : c.timetable_id = "tt1"} = Range(detectResponse.conflicts)

\* C7: the four local checks return the same sequence of pairs for every
\* permutation of the analysed array, each pair with the smaller slot id
\* first.
C7_DetectionDeterminism ==
  (DetectRan /\ Len(timeSlots) > 0) =>
    /\ \A p \in PermutationsOf(timeSlots) : LocalChecks(p) = localChecks
    /\ \A ps \in {localChecks.overlaps, localChecks.locationConflicts,
                  localChecks.instructorConflicts, localChecks.travelIssues} :
         \A k \in 1..Len(ps) : SlotIdBefore(ps[k][1].id, ps[k][2].id)

DistinctCodes(cs) ==
  \A i, j \in 1..Len(cs) : i # j => cs[i].employee_code # cs[j].employee_code

\* C8: for candidates with pairwise distinct employee codes,
\* deterministicTieBreaker returns the same list for every permutation of
\* its input.
C8_RankingDeterminism ==
  (lastOp = "rank" /\ DistinctCodes(sortedCandidates)) =>
    \A p \in PermutationsOf(sortedCandidates) :
      deterministicTieBreaker(p) = sortedCandidates

C8_Witness ==
  /\ lastOp = "rank"
  /\ Len(sortedCandidates) >= 2
  /\ DistinctCodes(sortedCandidates)
  /\ \E i, j \in 1..Len(sortedCandidates) :
       /\ i # j
       /\ sortedCandidates[i].match_score = sortedCandidates[j].match_score
       /\ sortedCandidates[i].available_minutes = sortedCandidates[j].available_minutes

\* a is lexicographically smaller than b
LexLess(a, b) ==
  \E k \in 1..Len(b) :
    /\ \A i \in 1..(k - 1) : i <= Len(a) /\ a[i] = b[i]
    /\ k > Len(a) \/ (Len(a) >= k /\ a[k] < b[k])

ScoreRule(a, b) == a.match_score > b.match_score

MinutesRule(a, b) ==
  a.match_score = b.match_score /\ a.available_minutes > b.available_minutes

CodeRule(a, b) ==
  /\ a.match_score = b.match_score
  /\ a.available_minutes = b.available_minutes
  /\ LexLess(a.employee_code, b.employee_code)

\* C9: in the returned list a precedes b whenever a has the higher score,
\* or the same score and more available minutes, or both equal and the
\* lexicographically smaller employee code.
C9_TieBreakOrder ==
  lastOp = "rank" =>
    \A i, j \in 1..Len(sortedCandidates) :
      LET a == sortedCandidates[i]
          b == sortedCandidates[j]
      IN  (ScoreRule(a, b) \/ MinutesRule(a, b) \/ CodeRule(a, b)) => i < j

C9_Witness ==
  /\ lastOp = "rank"
  /\ \E i, j, k \in 1..Len(sortedCandidates) :
       /\ CodeRule(sortedCandidates[i], sortedCandidates[j])
       /\ MinutesRule(sortedCandidates[j], sortedCandidates[k])

\* the teachers the last statement on time_slots concerned
AffectedTeachers ==
  {lastStatement.old_teacher_id, lastStatement.new_teacher_id} \ {NULL}

\* C2: once a statement on time_slots has completed, the current-week
\* workload row of each teacher it affected exists and holds the sum of the
\* durations of that teacher's scheduled and substituted slots.
C2_WorkloadFresh ==
  lastOp \in {"insert_slot", "update_slot", "delete_slot"} =>
    \A t \in AffectedTeachers :
      \E w \in teacher_workload :
        /\ w.teacher_id = t
        /\ w.week_start = get_week_start(current_date)
        /\ w.assigned_minutes = TotalMinutes(time_slots, timetables, t)

AllCommitted ==
  /\ DOMAIN sessions = SessionIds
  /\ \A s \in SessionIds : sessions[s].pc = "committed"

\* C3: once the concurrent transactions on one teacher's slots have all
\* committed, the teacher's workload row of the week holds the sum over the
\* final set of the teacher's scheduled and substituted slots.
C3_NoLostUpdate ==
  AllCommitted =>
    \A s \in SessionIds :
      \E w \in teacher_workload :
        /\ w.teacher_id = sessions[s].teacher_id
        /\ w.week_start = sessions[s].week_start
        /\ w.assigned_minutes =
             TotalMinutes(time_slots, timetables, sessions[s].teacher_id)

\* COALESCE(assigned_minutes, 0) of a teacher's workload row of a week
AssignedInWeek(teacherId, week) ==
  IF \E w \in teacher_workload : w.teacher_id = teacherId /\ w.week_start = week
  THEN (CHOOSE w \in teacher_workload :
          w.teacher_id = teacherId /\ w.week_start = week).assigned_minutes
  ELSE 0

FoundIds == {sortedCandidates[k].teacher_id : k \in 1..Len(sortedCandidates)}

QueriedSlot == CHOOSE ts \in time_slots : ts.id = rpcArgs.p_time_slot_id

MaxWeeklyMinutes ==
  get_setting(Db, "teacher_max_weekly_minutes", DefaultMaxWeeklyMinutes)

\* C1: no returned candidate's assigned minutes (0 without a workload row)
\* plus the slot's duration exceed the weekly maximum, and an active,
\* available teacher who stays within the maximum, also exactly at it, is
\* returned unless the limit cut the list.
C1_CapEnforced ==
  lastOp = "find_candidates" =>
    LET week == get_week_start(rpcArgs.p_date)
        duration == DurationMinutes(QueriedSlot)
    IN  /\ \A id \in FoundIds :
             AssignedInWeek(id, week) + duration <= MaxWeeklyMinutes
        /\ Len(sortedCandidates) < rpcArgs.p_limit =>
             \A t \in teachers :
               (/\ t.status = "active"
                /\ is_teacher_available(Db, t.id, rpcArgs.p_date,
                                        QueriedSlot.start_time, QueriedSlot.end_time)
                /\ AssignedInWeek(t.id, week) + duration <= MaxWeeklyMinutes)
               => t.id \in FoundIds

\* assigned 1000 of 1080 and a slot of 100 minutes: excluded; assigned 980:
\* returned, exactly at the maximum; a teacher without a row: returned
C1_Witness ==
  /\ lastOp = "find_candidates"
  /\ DurationMinutes(QueriedSlot) = 100
  /\ MaxWeeklyMinutes = 1080
  /\ \E a, b, c \in teachers :
       /\ a.status = "active"
       /\ AssignedInWeek(a.id, get_week_start(rpcArgs.p_date)) = 1000
       /\ a.id \notin FoundIds
       /\ AssignedInWeek(b.id, get_week_start(rpcArgs.p_date)) = 980
       /\ b.id \in FoundIds
       /\ ~\E w \in teacher_workload : w.teacher_id = c.id
       /\ c.id \in FoundIds

\* C10: the candidate list of a call with limit L is the first L elements
\* of the full list of eligible teachers in the order of
\* deterministicTieBreaker.
C10_LimitIsPrefix ==
  lastOp = "find_candidates" =>
    LET all == find_eligible_substitutes(Db, rpcArgs.p_time_slot_id,
                                         rpcArgs.p_date, Cardinality(teachers))
        full == deterministicTieBreaker(all)
        L == IF rpcArgs.p_limit < Len(full) THEN rpcArgs.p_limit ELSE Len(full)
    IN  sortedCandidates = SubSeq(full, 1, L)

\* C4: after absence reports and applied substitutions no teacher's
\* assigned weekly minutes, counted from the slots or read from the workload
\* row, exceed the teacher's weekly maximum.
C4_NoTeacherOverloaded ==
  lastOp \in {"report_absence", "apply_substitution"} =>
    NoOverload(time_slots, timetables, teachers, teacher_workload)

\* an unavailable record of the teacher on the date that blocks the whole
\* day (no start, no end) or whose range overlaps the slot's [start, end)
BlockedOn(teacherId, date, slot) ==
  \E k \in 1..Len(teacher_availability) :
    LET a == teacher_availability[k]
    IN  /\ a.teacher_id = teacherId /\ a.date = date /\ a.type = "unavailable"
        /\ \/ a.start_time = NoTime /\ a.end_time = NoTime
           \/ /\ a.start_time # NoTime /\ a.end_time # NoTime
              /\ timeToMinutes(a.start_time) < timeToMinutes(slot.end_time)
              /\ timeToMinutes(slot.start_time) < timeToMinutes(a.end_time)

\* the teachers the filter of the claims admits for the last query
ShouldBeEligible ==
  {t \in teachers :
     /\ t.status = "active"
     /\ ~BlockedOn(t.id, rpcArgs.p_date, QueriedSlot)
     /\ AssignedInWeek(t.id, get_week_start(rpcArgs.p_date))
          + DurationMinutes(QueriedSlot) <= MaxWeeklyMinutes}

ClaimedScore(t, slot, week) ==
  (IF slot.subject_code \in t.subjects THEN 5 ELSE 0)
  + (IF AssignedInWeek(t.id, week) * 10 < MaxWeeklyMinutes * 5 THEN 3
     ELSE IF AssignedInWeek(t.id, week) * 10 < MaxWeeklyMinutes * 8 THEN 2
     ELSE 1)
  + 2

\* C12: every returned candidate's match_score is the subject term plus the
\* load term of its assigned minutes (0 without a workload row) plus 0.2,
\* hence between 0.3 and 1.0.
C12_ScoreFormula ==
  lastOp = "find_candidates" =>
    \A k \in 1..Len(sortedCandidates) :
      \A t \in teachers :
        t.id = sortedCandidates[k].teacher_id =>
          /\ sortedCandidates[k].match_score =
               ClaimedScore(t, QueriedSlot, get_week_start(rpcArgs.p_date))
          /\ sortedCandidates[k].match_score \in 3..10

\* a.start < b.end and b.start < a.end on the same day
ClaimedOverlap(a, b) ==
  /\ a.day_of_week = b.day_of_week
  /\ timeToMinutes(a.start_time) < timeToMinutes(b.end_time)
  /\ timeToMinutes(b.start_time) < timeToMinutes(a.end_time)

\* how often the list of pairs names the i-th and j-th slot of the array
TimesReported(pairs, i, j) ==
  Cardinality({k \in 1..Len(pairs) :
    {pairs[k][1].id, pairs[k][2].id} = {timeSlots[i].id, timeSlots[j].id}})

\* every entry of the list is a pair of two different slots of the array
PairsOfInput(pairs) ==
  \A k \in 1..Len(pairs) :
    \E i, j \in 1..Len(timeSlots) :
      i # j /\ pairs[k][1] = timeSlots[i] /\ pairs[k][2] = timeSlots[j]

\* C13: quickOverlapCheck returns one pair for every two slots of the same
\* day with a.start < b.end and b.start < a.end, and no other pair; slots
\* that touch at an endpoint or lie on different days are not returned.
C13_OverlapExact ==
  lastOp = "local_checks" =>
    /\ PairsOfInput(localChecks.overlaps)
    /\ \A i, j \in 1..Len(timeSlots) :
         i < j =>
           TimesReported(localChecks.overlaps, i, j) =
             (IF ClaimedOverlap(timeSlots[i], timeSlots[j]) THEN 1 ELSE 0)

\* three slots of one day: two pairs overlap and are returned once each, the
\* pair that touches at 10:00 is not returned
C13_Witness ==
  /\ lastOp = "local_checks"
  /\ Len(timeSlots) = 3
  /\ Len(localChecks.overlaps) = 2
  /\ \E i, j \in 1..Len(timeSlots) :
       /\ timeSlots[i].day_of_week = timeSlots[j].day_of_week
       /\ timeSlots[i].end_time = timeSlots[j].start_time
       /\ TimesReported(localChecks.overlaps, i, j) = 0

\* C14: checkLocationConflicts returns a pair of slots exactly when the two
\* overlap as in the time-overlap check and both have a non-empty, equal
\* location; other rooms or a missing location give no location conflict.
C14_LocationExact ==
  lastOp = "local_checks" =>
    /\ PairsOfInput(localChecks.locationConflicts)
    /\ \A i, j \in 1..Len(timeSlots) :
         i < j =>
           TimesReported(localChecks.locationConflicts, i, j) =
             (IF /\ ClaimedOverlap(timeSlots[i], timeSlots[j])
                 /\ timeSlots[i].location \notin {NULL, ""}
                 /\ timeSlots[j].location \notin {NULL, ""}
                 /\ timeSlots[i].location = timeSlots[j].location
              THEN 1 ELSE 0)

\* two overlapping slots in Room101 give the one location conflict, while
\* an overlapping pair in Room101 and Room102 gives none
C14_Witness ==
  /\ lastOp = "local_checks"
  /\ Len(localChecks.locationConflicts) = 1
  /\ localChecks.locationConflicts[1][1].location = "Room101"
  /\ \E i, j \in 1..Len(timeSlots) :
       /\ ClaimedOverlap(timeSlots[i], timeSlots[j])
       /\ {timeSlots[i].location, timeSlots[j].location} = {"Room101", "Room102"}

\* C15: checkInstructorConflicts returns a pair of slots exactly when the
\* two overlap as in the time-overlap check and both have a non-empty, equal
\* instructor; overlapping slots of different instructors give none.
C15_InstructorExact ==
  lastOp = "local_checks" =>
    /\ PairsOfInput(localChecks.instructorConflicts)
    /\ \A i, j \in 1..Len(timeSlots) :
         i < j =>
           TimesReported(localChecks.instructorConflicts, i, j) =
             (IF /\ ClaimedOverlap(timeSlots[i], timeSlots[j])
                 /\ timeSlots[i].instructor \notin {NULL, ""}
                 /\ timeSlots[j].instructor \notin {NULL, ""}
                 /\ timeSlots[i].instructor = timeSlots[j].instructor
              THEN 1 ELSE 0)

\* two overlapping slots of Dr.Jones give the one instructor conflict, while
\* an overlapping pair of Dr.Smith and Dr.Jones gives none
C15_Witness ==
  /\ lastOp = "local_checks"
  /\ Len(localChecks.instructorConflicts) = 1
  /\ localChecks.instructorConflicts[1][1].instructor = "Dr.Jones"
  /\ \E i, j \in 1..Len(timeSlots) :
       /\ ClaimedOverlap(timeSlots[i], timeSlots[j])
       /\ {timeSlots[i].instructor, timeSlots[j].instructor} = {"Dr.Smith", "Dr.Jones"}

\* the place of the i-th slot among the slots of its day sorted by start
\* time, slots of equal start in the order of the array
PlaceInDay(i) ==
  1 + Cardinality({j \in 1..Len(timeSlots) :
        /\ timeSlots[j].day_of_week = timeSlots[i].day_of_week
        /\ \/ timeToMinutes(timeSlots[j].start_time) < timeToMinutes(timeSlots[i].start_time)
           \/ /\ timeSlots[j].start_time = timeSlots[i].start_time
              /\ j < i})

\* next.start - current.end
GapMinutes(current, next) ==
  timeToMinutes(next.start_time) - timeToMinutes(current.end_time)

\* different non-empty locations
MustTravel(current, next) ==
  /\ current.location \notin {NULL, ""}
  /\ next.location \notin {NULL, ""}
  /\ current.location # next.location

\* how often the list holds the pair (i-th slot, j-th slot) in this order
TimesIssued(pairs, i, j) ==
  Cardinality({k \in 1..Len(pairs) : pairs[k] = <<timeSlots[i], timeSlots[j]>>})

\* C16: checkTravelTimeIssues returns (current, next) exactly when the two
\* slots share a day, are neighbours in the day's slots sorted by start time,
\* have different non-empty locations and next.start - current.end is below
\* the 15 minutes; slots that are not neighbours are never returned.
C16_TravelExact ==
  lastOp = "local_checks" =>
    /\ PairsOfInput(localChecks.travelIssues)
    /\ \A i, j \in 1..Len(timeSlots) :
         i # j =>
           TimesIssued(localChecks.travelIssues, i, j) =
             (IF /\ timeSlots[i].day_of_week = timeSlots[j].day_of_week
                 /\ PlaceInDay(j) = PlaceInDay(i) + 1
                 /\ MustTravel(timeSlots[i], timeSlots[j])
                 /\ GapMinutes(timeSlots[i], timeSlots[j]) < 15
              THEN 1 ELSE 0)

\* a slot ending 10:00 followed by one in another room at 10:05 is the one
\* issue, while a third slot in between keeps two slots of different rooms
\* five minutes apart from being returned
C16_Witness ==
  /\ lastOp = "local_checks"
  /\ \E k \in 1..Len(localChecks.travelIssues) :
       GapMinutes(localChecks.travelIssues[k][1], localChecks.travelIssues[k][2]) \in 0..14
  /\ \E i, j \in 1..Len(timeSlots) :
       /\ timeSlots[i].day_of_week = timeSlots[j].day_of_week
       /\ MustTravel(timeSlots[i], timeSlots[j])
       /\ GapMinutes(timeSlots[i], timeSlots[j]) = 5
       /\ PlaceInDay(j) = PlaceInDay(i) + 2
       /\ TimesIssued(localChecks.travelIssues, i, j) = 0

\* C17: for every progress in 0..100 and every weight calculatePriority
\* returns critical iff progress < 50 and weight >= 4; otherwise high iff
\* progress < 75 and weight >= 3; otherwise medium iff progress < 75;
\* otherwise normal.  The comparisons are strict: progress 50 is never
\* critical and progress 75 is always normal.
C17_PriorityRules ==
  (lastOp = "calculate_priority" /\ priorityContext.progress_percent \in 0..100) =>
    LET progress == priorityContext.progress_percent
        weight == priorityContext.subject_weight
        critical == progress < 50 /\ weight >= 4
        high == ~critical /\ progress < 75 /\ weight >= 3
        medium == ~critical /\ ~high /\ progress < 75
    IN  /\ priorityResult \in {"critical", "high", "medium", "normal"}
        /\ priorityResult = "critical" <=> critical
        /\ priorityResult = "high" <=> high
        /\ priorityResult = "medium" <=> medium
        /\ priorityResult = "normal" <=> (~critical /\ ~high /\ ~medium)
        /\ progress = 50 => priorityResult # "critical"
        /\ progress = 75 => priorityResult = "normal"
        /\ (progress = 40 /\ weight = 5) => priorityResult = "critical"
        /\ (progress = 40 /\ weight = 3) => priorityResult = "high"
        /\ (progress = 60 /\ weight = 2) => priorityResult = "medium"
        /\ (progress = 90 /\ weight = 5) => priorityResult = "normal"

\* progress exactly 50 with weight 5 is classified high
C17_Witness ==
  /\ lastOp = "calculate_priority"
  /\ priorityContext = [progress_percent |-> 50, subject_weight |-> 5]
  /\ priorityResult = "high"

\* the requests a step adds to substitution_requests
NewRequests ==
  {substitution_requests'[k] :
     k \in (Len(substitution_requests) + 1)..Len(substitution_requests')}

\* the slots a step cancels
NewlyCancelled ==
  {r \in time_slots' :
     /\ r.status = "cancelled"
     /\ \E old \in time_slots : old.id = r.id /\ old.status = "scheduled"}

\* the ranked candidates for a slot once the absence of the step is recorded
RankedFor(slotId) ==
  LET absence == teacher_availability'[Len(teacher_availability')]
  IN  deterministicTieBreaker(
        find_eligible_substitutes(
          [Db EXCEPT !.teacher_availability = teacher_availability'],
          slotId, absence.date, AbsenceLimit))

\* C18: an absence report gives every slot it cancels one request.  The
\* request of a slot without eligible candidate has status open and no
\* suggested teacher; the request of a slot with candidates has status
\* suggested and names the first ranked candidate.  So a new request has
\* status suggested iff its suggested_teacher_id is set.
C18_OpenWhenNoCandidate ==
  [][lastOp' = "report_absence" =>
       /\ \A req \in NewRequests :
            /\ req.status \in {"open", "suggested"}
            /\ req.status = "suggested" <=> req.suggested_teacher_id # NULL
       /\ \A r \in NewlyCancelled :
            \E req \in NewRequests :
              req.time_slot_id = r.id /\ r.substitution_request_id = req.id
       /\ Cardinality(NewRequests) = Cardinality(NewlyCancelled)
       /\ Len(substitution_requests') > Len(substitution_requests) =>
            LET first == substitution_requests'[Len(substitution_requests) + 1]
                ranked == RankedFor(first.time_slot_id)
            IN  IF ranked = <<>>
                THEN first.status = "open" /\ first.suggested_teacher_id = NULL
                ELSE /\ first.status = "suggested"
                     /\ first.suggested_teacher_id = ranked[1].teacher_id]_vars

\* an absence report has left an open request without suggested teacher on
\* a slot it cancelled
C18_Witness ==
  /\ lastOp = "report_absence"
  /\ \E k \in 1..Len(substitution_requests) :
       /\ substitution_requests[k].status = "open"
       /\ substitution_requests[k].suggested_teacher_id = NULL
       /\ \E r \in time_slots :
            /\ r.id = substitution_requests[k].time_slot_id
            /\ r.status = "cancelled"
            /\ r.substitution_request_id = substitution_requests[k].id

\* the absence the last report recorded
LastAbsence == teacher_availability[Len(teacher_availability)]

\* the slot lies on the weekday of the absence and meets its window
\* [start_time, end_time), or the absence is for the whole day
InsideAbsence(r, absence) ==
  /\ r.teacher_id = absence.teacher_id
  /\ r.day_of_week = WeekdayName(absence.date)
  /\ \/ absence.start_time = NoTime /\ absence.end_time = NoTime
     \/ /\ absence.start_time # NoTime /\ absence.end_time # NoTime
        /\ timeToMinutes(r.start_time) < timeToMinutes(absence.end_time)
        /\ timeToMinutes(absence.start_time) < timeToMinutes(r.end_time)

\* C19: when an absence report for teacher T on date D has completed, no
\* slot of T on D's weekday that overlaps the reported unavailability is
\* still scheduled.
C19_NoScheduledSlotInAbsence ==
  lastOp = "report_absence" =>
    \A r \in time_slots :
      InsideAbsence(r, LastAbsence) => r.status # "scheduled"

\* the rows of teacher_workload for the key of the last recompute call
RecomputedRows ==
  {w \in teacher_workload :
     /\ w.teacher_id = recomputeResult[1].p_teacher_id
     /\ w.week_start = recomputeResult[1].p_week_start}

\* the durations of the teacher's slots that are not cancelled
NonCancelledMinutes(teacherId) ==
  SumOfDurations({r \in time_slots :
                    r.teacher_id = teacherId /\ r.status # "cancelled"})

\* C20: recompute(teacher, weekStart) leaves exactly one teacher_workload
\* row for (teacher, weekStart); its assigned_minutes is the sum of the
\* durations of the teacher's non-cancelled slots, and the call returns that
\* sum.
C20_RecomputeExact ==
  lastOp = "recompute" =>
    /\ Cardinality(RecomputedRows) = 1
    /\ \A w \in RecomputedRows :
         w.assigned_minutes = NonCancelledMinutes(recomputeResult[1].p_teacher_id)
    /\ recomputeResult[1].total_minutes =
         NonCancelledMinutes(recomputeResult[1].p_teacher_id)

\* day in Monday..Saturday, 09:00 <= start, end <= 17:00 and start < end
ValidSlot(r) ==
  /\ r.day_of_week \in
       {"Monday", "Tuesday", "Wednesday", "Thursday", "Friday", "Saturday"}
  /\ 9 * 60 <= r.start_time[1] * 60 + r.start_time[2]
  /\ r.end_time[1] * 60 + r.end_time[2] <= 17 * 60
  /\ r.start_time[1] * 60 + r.start_time[2] < r.end_time[1] * 60 + r.end_time[2]

\* C21: every stored slot has a day in Monday..Saturday, 09:00 <= start,
\* end <= 17:00 and start < end, in every state; a rejected insert or
\* update leaves time_slots as it was.
C21_StoredSlotsValid ==
  /\ [](\A r \in time_slots : ValidSlot(r))
  /\ [][lastOp' \in {"insert_rejected", "update_rejected"} =>
          time_slots' = time_slots]_vars

\* an update was rejected while a slot is stored
C21_Witness ==
  /\ lastOp = "update_rejected"
  /\ time_slots # {}
  /\ \A r \in time_slots : ValidSlot(r)

\* C24: a rejected insert or update leaves an audit row with the reason of
\* the rejection, and an accepted insert or update adds no audit row.
C24_AuditOnlyRejected ==
  [][/\ lastOp' \in {"insert_slot", "update_slot"} =>
          time_slots_audit' = time_slots_audit
     /\ lastOp' \in {"insert_rejected", "update_rejected"} =>
          \E a \in time_slots_audit' :
            a.rejection_reason \in {"Invalid day", "Invalid time"}]_vars

UnorderedIds(pairs) == {{pairs[k][1].id, pairs[k][2].id} : k \in 1..Len(pairs)}

\* C23: checkTimeOverlap(s1, e1, s2, e2) = checkTimeOverlap(s2, e2, s1, e1)
\* for all time ranges, and quickOverlapCheck returns the pair {a, b} on
\* [a, b] iff it returns it on [b, a].
C23_OverlapSymmetric ==
  lastOp = "test_overlap" =>
    /\ overlapResult.forward = overlapResult.backward
    /\ UnorderedIds(overlapResult.pairs) = UnorderedIds(overlapResult.reversedPairs)
    /\ Len(overlapResult.pairs) = Len(overlapResult.reversedPairs)

\* two slots of one day that overlap, found in both orders, the first of
\* them starting later than the second
C23_Witness ==
  /\ lastOp = "test_overlap"
  /\ overlapResult.forward /\ overlapResult.backward
  /\ Len(overlapResult.pairs) = 1 /\ Len(overlapResult.reversedPairs) = 1
  /\ overlapResult.pairs[1][1] = overlapResult.reversedPairs[1][2]
  /\ timeToMinutes(timeSlots[2].start_time) < timeToMinutes(timeSlots[1].start_time)

\* the weight the workflow reads for the slot of a request
RequestWeight(req) ==
  SubjectWeightOf((CHOOSE r \in time_slots : r.id = req.time_slot_id).subject_code)

\* the requests of a step that carry a suggestion
NewSuggestions == {req \in NewRequests : req.suggested_teacher_id # NULL}

\* C25: the absence workflow classifies every slot with progress_percent 50,
\* so a suggestion has priority high when the subject weight is at least 3
\* and medium otherwise, never critical or normal, and the summary of the
\* response counts no critical suggestion.
C25_AbsencePriority ==
  [][lastOp' = "report_absence" =>
       /\ \A req \in NewSuggestions :
            /\ req.priority = IF RequestWeight(req) >= 3 THEN "high" ELSE "medium"
            /\ req.priority =
                 calculatePriority([progress_percent |-> 50,
                                    subject_weight |-> RequestWeight(req)])
       /\ AbsenceSummary(NewRequests, NewSuggestions).critical = 0]_vars

\* one report that left a high suggestion for a slot of weight 3 and a medium
\* one for a slot of weight 2
C25_Witness ==
  /\ lastOp = "report_absence"
  /\ Len(teacher_availability) = 1
  /\ \E i, j \in 1..Len(substitution_requests) :
       /\ substitution_requests[i].priority = "high"
       /\ RequestWeight(substitution_requests[i]) = 3
       /\ substitution_requests[j].priority = "medium"
       /\ RequestWeight(substitution_requests[j]) = 2

\* C26: the absent teacher is never suggested as the substitute for their own
\* slot, whether the report covers the whole day, gives both startTime and
\* endTime, or gives only one of them.
C26_NotOwnSubstitute ==
  \A k \in 1..Len(substitution_requests) :
    substitution_requests[k].suggested_teacher_id
      # substitution_requests[k].original_teacher_id

\* the slots that occupy a teacher: scheduled or substituted
ActiveSlotsOf(teacherId) ==
  {r \in time_slots : r.teacher_id = teacherId
                      /\ r.status \in {"scheduled", "substituted"}}

\* two slots of one day whose time ranges overlap
SameDayOverlap(a, b) ==
  /\ a.day_of_week = b.day_of_week
  /\ TimeLess(a.start_time, b.end_time)
  /\ TimeLess(b.start_time, a.end_time)

\* C27: a teacher suggested as substitute for a slot has no scheduled or
\* substituted slot of their own overlapping that slot on the same day, and
\* no teacher holds two overlapping active slots once suggestions are applied.
C27_NoDoubleBooking ==
  /\ \A k \in 1..Len(substitution_requests) :
       LET req == substitution_requests[k]
           slot == CHOOSE r \in time_slots : r.id = req.time_slot_id
       IN  (req.status = "suggested" /\ req.suggested_teacher_id # NULL) =>
             \A own \in ActiveSlotsOf(req.suggested_teacher_id) :
               own.id # slot.id => ~SameDayOverlap(own, slot)
  /\ \A a, b \in time_slots :
       (/\ a.id # b.id
        /\ a.teacher_id = b.teacher_id
        /\ a.status \in {"scheduled", "substituted"}
        /\ b.status \in {"scheduled", "substituted"}) => ~SameDayOverlap(a, b)

\* C30: on every day of the week, Sunday included, the week start that
\* enforce-workload computes and queries with is the Monday get_week_start
\* returns for that day, so the run recomputes the rows the trigger maintains:
\* no workload row of another week appears.
C30_WeekStartAgrees ==
  /\ (lastOp = "enforce_workload" /\ enforceResponse.status = 200) =>
       enforceResponse.week_start = get_week_start(current_date)
  /\ \A w \in teacher_workload : w.week_start = get_week_start(current_date)

\* the requests of a slot that are still to be decided
PendingRequests(slotId) ==
  {k \in 1..Len(substitution_requests) :
     /\ substitution_requests[k].time_slot_id = slotId
     /\ substitution_requests[k].status \in {"open", "suggested"}}

\* C29: however two absence reports of one teacher and date interleave, once
\* both have returned every affected slot has at most one request in status
\* open or suggested, and the slot's substitution_request_id names it.
C29_OnePendingRequestPerSlot ==
  (\A c \in DOMAIN absenceCalls : absenceCalls[c].pc = "done") =>
    \A slot \in time_slots :
      /\ Cardinality(PendingRequests(slot.id)) <= 1
      /\ \A k \in PendingRequests(slot.id) :
           slot.substitution_request_id = substitution_requests[k].id

====
